---- MODULE Spec2Model ----
(***************************************************************************)
(* PetRescue (src/app.py, src/reset_admin_password.py): the Flask          *)
(* handlers over the SQLite store petrescue.db, as a state machine.        *)
(*                                                                         *)
(* db       the committed content of petrescue.db: one field per table,    *)
(*          each table a function from rowid to row, and seq, the          *)
(*          sqlite_sequence counters behind INTEGER PRIMARY KEY            *)
(*          AUTOINCREMENT                                                  *)
(* session  the Flask session cookie of the one browser: three tokens,     *)
(*          0 when absent                                                  *)
(* now      the store's clock, datetime('now')                             *)
(* resp     the response to the last request                               *)
(* promotions  history: per request id, the Shelter rows inserted from it  *)
(* uploads  UPLOAD_FOLDER: stored file name -> the bytes saved under it     *)
(* conn, lock  the in-flight approve requests, each on its own connection, *)
(*          and the holder of SQLite's RESERVED lock (0: nobody)           *)
(***************************************************************************)
EXTENDS Integers, Sequences, FiniteSets, TLC

VARIABLES db, session, now, resp, promotions, conn, lock, uploads

vars == <<db, session, now, resp, promotions, conn, lock, uploads>>

\* ------------------------------------------------------------------ bounds
MaxRequests == 2
MaxShelters == 2

Salts == {"s1", "s2"}
Workers == {1, 2}

\* ------------------------------------------------------------- SQL values
Null == <<>>
Some(v) == <<v>>

\* werkzeug.security: a salted one-way hash, and its verification
generate_password_hash(password, salt) == <<salt, password>>
check_password_hash(pwhash, password) == pwhash # <<>> /\ pwhash[2] = password

Insert(table, id, row) == (id :> row) @@ table
Delete(table, id) == [i \in DOMAIN table \ {id} |-> table[i]]

\* what a handler returns: the route that answered, the kind of response and its
\* target, and the message it flashed (recorded for the logins, "" elsewhere)
Respond(route, status, target) ==
    [route |-> route, status |-> status, target |-> target, flash |-> ""]
flash(response, message) == [response EXCEPT !.flash = message]
redirect(route, target) == Respond(route, "redirect", target)
render_template(route, target) == Respond(route, "render", target)
abort(route, code) == Respond(route, "abort", code)
raise(route, exception) == Respond(route, "error", exception)

\* ------------------------------------------------------------------- init
EmptyTable == <<>>

DefaultAdmin(salt) ==
    [username |-> "admin",
     password_hash |-> generate_password_hash("admin", salt),
     full_name |-> "Admin", email |-> "admin@local", phone |-> "",
     must_reset_password |-> 1]

\* init_db on a fresh petrescue.db: the tables, empty, and the seeded admin
init_db(salt) ==
    [users |-> EmptyTable,
     admins |-> Insert(EmptyTable, 1, DefaultAdmin(salt)),
     shelters |-> EmptyTable,
     shelter_requests |-> EmptyTable,
     donations |-> EmptyTable,
     animals |-> EmptyTable,
     seq |-> [users |-> 0, admins |-> 1, shelters |-> 0,
              shelter_requests |-> 0, donations |-> 0, animals |-> 0]]

IdleConn == [pc |-> "idle", req_id |-> 0, req |-> Null, tx |-> Null, result |-> "none"]

InitWith(store, t) ==
    /\ db = store
    /\ session = [user_id |-> 0, admin_id |-> 0, shelter_id |-> 0]
    /\ now = t
    /\ resp = Respond("none", "none", "none")
    /\ promotions = <<>>
    /\ conn = [w \in Workers |-> IdleConn]
    /\ lock = 0
    /\ uploads = <<>>

\* the store after the first init_db, no session bound
Init == InitWith(init_db("s1"), 0)

\* ------------------------------------------------------------ Session Gate
Usernames == {"admin", "root"}
Passwords == {"admin", "admin123", "pw1"}
NewPasswords == {"pw1"}

seqVars == <<promotions, conn, lock, uploads>>

\* a guard that lets every request through
require_admin_Open == TRUE

\* require_admin: None (pass) when the admin token is bound
require_admin == session.admin_id # 0

AdminsNamed(d, username) == {i \in DOMAIN d.admins : d.admins[i].username = username}

\* a login that names the cause: an unknown username gets its own message
admin_login_NamesCause(username, password) ==
    /\ LET found == AdminsNamed(db, username) IN
        IF found = {}
        THEN /\ resp' = flash(render_template("admin_login", "admin_login.html"),
                              "Username necunoscut.")
             /\ UNCHANGED session
        ELSE IF ~check_password_hash(db.admins[CHOOSE i \in found : TRUE].password_hash, password)
        THEN /\ resp' = flash(render_template("admin_login", "admin_login.html"),
                              "Username sau parola incorecte.")
             /\ UNCHANGED session
        ELSE LET id == CHOOSE i \in found : TRUE IN
             /\ session' = [session EXCEPT !.admin_id = id]
             /\ resp' = IF db.admins[id].must_reset_password = 1
                        THEN redirect("admin_login", "admin_reset_password")
                        ELSE redirect("admin_login", "admin_dashboard")
    /\ UNCHANGED <<db, now, seqVars>>

\* POST /admin/
admin_login(username, password) ==
    /\ LET found == AdminsNamed(db, username) IN
        IF found = {} \/ ~check_password_hash(db.admins[CHOOSE i \in found : TRUE].password_hash, password)
        THEN /\ resp' = flash(render_template("admin_login", "admin_login.html"),
                               "Username sau parola incorecte.")
             /\ UNCHANGED session
        ELSE LET id == CHOOSE i \in found : TRUE IN
             /\ session' = [session EXCEPT !.admin_id = id]
             /\ resp' = IF db.admins[id].must_reset_password = 1
                        THEN redirect("admin_login", "admin_reset_password")
                        ELSE redirect("admin_login", "admin_dashboard")
    /\ UNCHANGED <<db, now, seqVars>>

\* GET /admin/logout
admin_logout ==
    /\ session' = [session EXCEPT !.admin_id = 0]
    /\ resp' = redirect("admin_logout", "home")
    /\ UNCHANGED <<db, now, seqVars>>

\* GET /admin/reset-password
admin_reset_password ==
    /\ resp' = IF ~require_admin
               THEN redirect("admin_reset_password", "admin_login")
               ELSE render_template("admin_reset_password", "admin_reset_password.html")
    /\ UNCHANGED <<db, session, now, seqVars>>

\* the UPDATE without its WHERE clause
SetAdminPassword_AllRows(d, id, pwhash) ==
    [d EXCEPT !.admins = [i \in DOMAIN @ |->
        [@[i] EXCEPT !.password_hash = pwhash, !.must_reset_password = 0]]]

\* UPDATE admins SET password_hash = ?, must_reset_password = 0 WHERE id = ?
SetAdminPassword(d, id, pwhash) ==
    [d EXCEPT !.admins = [i \in DOMAIN @ |->
        IF i = id THEN [@[i] EXCEPT !.password_hash = pwhash, !.must_reset_password = 0]
        ELSE @[i]]]

\* POST /admin/reset-password
admin_reset_password_save(password, password2, salt) ==
    /\ IF ~require_admin
       THEN /\ resp' = redirect("admin_reset_password_save", "admin_login")
            /\ UNCHANGED db
       ELSE IF password # password2
       THEN /\ resp' = redirect("admin_reset_password_save", "admin_reset_password")
            /\ UNCHANGED db
       ELSE /\ db' = SetAdminPassword(db, session.admin_id, generate_password_hash(password, salt))
            /\ resp' = redirect("admin_reset_password_save", "admin_dashboard")
    /\ UNCHANGED <<session, now, seqVars>>

\* reset_admin_password.py
ADMIN_USERNAME == "admin"
NEW_PASSWORD == "admin123"

\* python reset_admin_password.py, run against the store beside the application
main(salt) ==
    /\ LET found == AdminsNamed(db, ADMIN_USERNAME) IN
        IF found = {}
        THEN UNCHANGED db
        ELSE db' = SetAdminPassword(db, CHOOSE i \in found : TRUE,
                                    generate_password_hash(NEW_PASSWORD, salt))
    /\ resp' = Respond("reset_admin_password.py", "exit", "0")
    /\ UNCHANGED <<session, now, seqVars>>

\* GET /admin/dashboard
admin_dashboard ==
    /\ resp' = IF ~require_admin
               THEN redirect("admin_dashboard", "admin_login")
               ELSE render_template("admin_dashboard", "admin_dashboard.html")
    /\ UNCHANGED <<db, session, now, seqVars>>

\* ------------------------------------------------------------ Photo upload
\* A file name is the sequence of its characters, "" the empty sequence; a
\* FileStorage is Null (no "photo" part in the request) or Some of its filename
\* and bytes.
ALLOWED_EXTENSIONS ==
    {<<"p", "n", "g">>, <<"j", "p", "g">>, <<"j", "p", "e", "g">>, <<"w", "e", "b", "p">>}

FileStorage(filename, bytes) == Some([filename |-> filename, bytes |-> bytes])

\* str.lower(), on the letters the uploads use
lower(text) ==
    [k \in DOMAIN text |-> CASE text[k] = "P" -> "p"
                             [] text[k] = "N" -> "n"
                             [] text[k] = "G" -> "g"
                             [] OTHER -> text[k]]

\* str.rfind(ch), counted from 1: 0 when ch does not occur
rfind(text, ch) ==
    LET at == {k \in DOMAIN text : text[k] = ch}
    IN IF at = {} THEN 0 ELSE CHOOSE k \in at : \A j \in at : j <= k

\* "." in filename and filename.rsplit(".", 1)[1].lower() in ALLOWED_EXTENSIONS
allowed_file(filename) ==
    /\ rfind(filename, ".") # 0
    /\ lower(SubSeq(filename, rfind(filename, ".") + 1, Len(filename))) \in ALLOWED_EXTENSIONS

RECURSIVE lstrip(_, _)
lstrip(text, chars) ==
    IF text # <<>> /\ Head(text) \in chars THEN lstrip(Tail(text), chars) ELSE text

RECURSIVE rstrip(_, _)
rstrip(text, chars) ==
    IF text # <<>> /\ text[Len(text)] \in chars
    THEN rstrip(SubSeq(text, 1, Len(text) - 1), chars) ELSE text

\* "_".join(words) for the words of text.split(): "_" for each run of whitespace
RECURSIVE join(_)
join(text) ==
    IF text = <<>> THEN <<>>
    ELSE IF Head(text) = " " THEN <<"_">> \o join(lstrip(text, {" "}))
    ELSE <<Head(text)>> \o join(Tail(text))

\* "_".join(text.split()): whitespace at the ends separates nothing
join_split(text) == join(rstrip(lstrip(text, {" "}), {" "}))

\* the characters _filename_ascii_strip_re keeps, [A-Za-z0-9_.-], among those
\* the uploads use
FilenameAscii == {"c", "e", "x", "p", "n", "g", "P", "N", "G", "1", "2", "3", "_", ".", "-"}

\* werkzeug.utils.secure_filename: path separators become spaces, whitespace
\* runs become "_", the other characters outside [A-Za-z0-9_.-] are dropped,
\* "." and "_" are stripped from both ends
secure_filename(filename) ==
    LET spaced == [k \in DOMAIN filename |-> IF filename[k] = "/" THEN " " ELSE filename[k]]
        kept == SelectSeq(join_split(spaced), LAMBDA ch : ch \in FilenameAscii)
    IN rstrip(lstrip(kept, {".", "_"}), {".", "_"})

\* os.path.splitext: the extension starts at the last dot, unless only dots
\* come before it
splitext(fname) ==
    LET dot == rfind(fname, ".")
    IN IF dot # 0 /\ \E k \in 1..(dot - 1) : fname[k] # "."
       THEN <<SubSeq(fname, 1, dot - 1), SubSeq(fname, dot, Len(fname))>>
       ELSE <<fname, <<>>>>

\* str(i) of the loop counter
str(i) == <<<<"1", "2", "3", "4", "5", "6", "7", "8", "9">>[i]>>

\* f"{base}_{i}{ext}"
Candidate(base, i, ext) == base \o <<"_">> \o str(i) \o ext

\* os.path.exists(os.path.join(UPLOAD_FOLDER, candidate))
exists(folder, candidate) == candidate \in DOMAIN folder

\* the while loop of save_uploaded_photo, run without interruption
RECURSIVE probe(_, _, _, _, _)
probe(folder, base, ext, candidate, i) ==
    IF exists(folder, candidate)
    THEN probe(folder, base, ext, Candidate(base, i, ext), i + 1)
    ELSE candidate

\* file_storage.save(path): the file is created, or truncated and rewritten
save(folder, candidate, bytes) == (candidate :> bytes) @@ folder

\* save_uploaded_photo(file_storage) when nothing else touches the folder during
\* the call: the returned name and the folder after it
save_uploaded_photo(folder, file_storage) ==
    IF file_storage = Null \/ file_storage[1].filename = <<>>
    THEN [name |-> <<>>, folder |-> folder]
    ELSE IF ~allowed_file(file_storage[1].filename)
    THEN [name |-> <<>>, folder |-> folder]
    ELSE LET fname == secure_filename(file_storage[1].filename)
             parts == splitext(fname)
             candidate == probe(folder, parts[1], parts[2], fname, 1)
         IN [name |-> candidate, folder |-> save(folder, candidate, file_storage[1].bytes)]

\* ----------------------------------------------------- Onboarding Lifecycle
BlankExtras ==
    [phone |-> "", address |-> "", description |-> "", website |-> "", photo |-> Null]
FilledExtras ==
    [phone |-> "0722", address |-> "Str. 1", description |-> "dogs", website |-> "paws.ro",
     photo |-> FileStorage(<<"c", ".", "p", "n", "g">>, "b1")]

Form(name, email, password, password2, extras) ==
    [name |-> name, email |-> email, password |-> password, password2 |-> password2,
     extras |-> extras]

\* request.form of POST /adaposturi/devino: three complete forms, two of them for
\* the same address once trimmed and lower-cased, and one form per validation failure
ValidForms ==
    {Form("Paws", "a@x", "pw1", "pw1", FilledExtras),
     Form("Paws", " A@X ", "pw1", "pw1", BlankExtras),
     Form("Paws", "b@x", "pw1", "pw1", FilledExtras)}
InvalidForms ==
    {Form("", "a@x", "pw1", "pw1", FilledExtras),
     Form("Paws", "", "pw1", "pw1", FilledExtras),
     Form("Paws", "a@x", "", "", FilledExtras),
     Form("Paws", "a@x", "pw1", "pw2", FilledExtras)}
ApplyForms == ValidForms \cup InvalidForms

\* (request.form.get("email") or "").strip().lower()
strip_lower(email) == IF email = " A@X " THEN "a@x" ELSE email

\* POST /adaposturi/devino without the comparison of the two passwords
shelter_apply_Unconfirmed(form, salt) ==
    LET email == strip_lower(form.email) IN
    /\ IF form.name = "" \/ email = "" \/ form.password = ""
       THEN /\ resp' = render_template("shelter_apply", "shelter_apply.html")
            /\ UNCHANGED <<db, uploads>>
       ELSE LET saved == save_uploaded_photo(uploads, form.extras.photo)
                id == db.seq.shelter_requests + 1
                row == [name |-> form.name, email |-> email,
                        phone |-> form.extras.phone, address |-> form.extras.address,
                        description |-> form.extras.description,
                        website |-> form.extras.website,
                        photo_filename |-> saved.name,
                        password_hash |-> generate_password_hash(form.password, salt),
                        shelter_type |-> "General", pickup_service |-> 1,
                        status |-> "PENDING",
                        reviewed_at |-> Null]
            IN /\ id <= MaxRequests
               /\ uploads' = saved.folder
               /\ db' = [db EXCEPT !.shelter_requests = Insert(@, id, row),
                                   !.seq.shelter_requests = id]
               /\ resp' = redirect("shelter_apply", "adaposturi")
    /\ UNCHANGED <<session, now, promotions, conn, lock>>

\* POST /adaposturi/devino
shelter_apply(form, salt) ==
    LET email == strip_lower(form.email) IN
    /\ IF form.name = "" \/ email = "" \/ form.password = ""
       THEN /\ resp' = render_template("shelter_apply", "shelter_apply.html")
            /\ UNCHANGED <<db, uploads>>
       ELSE IF form.password # form.password2
       THEN /\ resp' = render_template("shelter_apply", "shelter_apply.html")
            /\ UNCHANGED <<db, uploads>>
       ELSE LET saved == save_uploaded_photo(uploads, form.extras.photo)
                id == db.seq.shelter_requests + 1
                row == [name |-> form.name, email |-> email,
                        phone |-> form.extras.phone, address |-> form.extras.address,
                        description |-> form.extras.description,
                        website |-> form.extras.website,
                        photo_filename |-> saved.name,
                        password_hash |-> generate_password_hash(form.password, salt),
                        shelter_type |-> "General", pickup_service |-> 1,
                        status |-> "PENDING",
                        reviewed_at |-> Null]
            IN /\ id <= MaxRequests
               /\ uploads' = saved.folder
               /\ db' = [db EXCEPT !.shelter_requests = Insert(@, id, row),
                                   !.seq.shelter_requests = id]
               /\ resp' = redirect("shelter_apply", "adaposturi")
    /\ UNCHANGED <<session, now, promotions, conn, lock>>

\* one UNIQUE index over the emails of both tables
EmailTaken_AnyTable(d, email) ==
    \/ \E i \in DOMAIN d.shelters : d.shelters[i].email = email
    \/ \E i \in DOMAIN d.users : d.users[i].email = email

\* shelters.email is UNIQUE: the INSERT raises sqlite3.IntegrityError
EmailTaken(d, email) == \E i \in DOMAIN d.shelters : d.shelters[i].email = email

\* ShelterRow with password_hash left out of the INSERT's column list: the column
\* takes its DEFAULT ''
ShelterRow_NoCredential(req, t) ==
    [name |-> req.name, email |-> req.email, phone |-> req.phone,
     address |-> req.address, description |-> req.description,
     website |-> req.website, photo_filename |-> req.photo_filename,
     password_hash |-> <<>>, shelter_type |-> req.shelter_type,
     urgent_level |-> 0, pickup_service |-> req.pickup_service, created_at |-> t]

\* ShelterRow with urgent_level in the column list of the INSERT, taken from
\* the request's pickup_service
ShelterRow_UrgentFromRequest(req, t) ==
    [name |-> req.name, email |-> req.email, phone |-> req.phone,
     address |-> req.address, description |-> req.description,
     website |-> req.website, photo_filename |-> req.photo_filename,
     password_hash |-> req.password_hash, shelter_type |-> req.shelter_type,
     urgent_level |-> req.pickup_service, pickup_service |-> req.pickup_service,
     created_at |-> t]

\* the row INSERT INTO shelters (...) VALUES (req[...]) makes of a request
ShelterRow(req, t) ==
    [name |-> req.name, email |-> req.email, phone |-> req.phone,
     address |-> req.address, description |-> req.description,
     website |-> req.website, photo_filename |-> req.photo_filename,
     password_hash |-> req.password_hash, shelter_type |-> req.shelter_type,
     urgent_level |-> 0, pickup_service |-> req.pickup_service, created_at |-> t]

\* the INSERT on a table declared without AUTOINCREMENT: the rowid after the
\* largest one in the table
InsertShelter_ReusesRowid(d, req, t) ==
    LET id == IF DOMAIN d.shelters = {} THEN 1
              ELSE (CHOOSE m \in DOMAIN d.shelters : \A i \in DOMAIN d.shelters : i <= m) + 1
    IN [d EXCEPT !.shelters = Insert(@, id, ShelterRow(req, t)), !.seq.shelters = id]

InsertShelter(d, req, t) ==
    LET id == d.seq.shelters + 1 IN
    [d EXCEPT !.shelters = Insert(@, id, ShelterRow(req, t)), !.seq.shelters = id]

\* the UPDATE without its WHERE clause
SetRequestStatus_EveryRow(d, req_id, status, t) ==
    [d EXCEPT !.shelter_requests = [i \in DOMAIN @ |->
        [@[i] EXCEPT !.status = status, !.reviewed_at = Some(t)]]]

\* UPDATE shelter_requests SET status=?, reviewed_at=datetime('now') WHERE id=?
SetRequestStatus(d, req_id, status, t) ==
    [d EXCEPT !.shelter_requests = [i \in DOMAIN @ |->
        IF i = req_id THEN [@[i] EXCEPT !.status = status, !.reviewed_at = Some(t)]
        ELSE @[i]]]

Promoted(p, req_id, shelter_id) ==
    IF req_id \in DOMAIN p THEN [p EXCEPT ![req_id] = @ \cup {shelter_id}]
    ELSE (req_id :> {shelter_id}) @@ p

RequestIds == 1..(MaxRequests + 1)
ShelterIds == 0..(MaxShelters + 1)

\* POST /admin/shelter-requests/<req_id>/approve, run to completion
admin_shelter_request_approve(req_id) ==
    /\ IF ~require_admin
       THEN /\ resp' = redirect("admin_shelter_request_approve", "admin_login")
            /\ UNCHANGED <<db, promotions, uploads>>
       ELSE IF req_id \notin DOMAIN db.shelter_requests
       THEN /\ resp' = abort("admin_shelter_request_approve", "404")
            /\ UNCHANGED <<db, promotions, uploads>>
       ELSE LET req == db.shelter_requests[req_id] IN
            IF EmailTaken(db, req.email)
            THEN /\ resp' = raise("admin_shelter_request_approve", "IntegrityError")
                 /\ UNCHANGED <<db, promotions, uploads>>
            ELSE /\ db.seq.shelters < MaxShelters
                 /\ db' = SetRequestStatus(InsertShelter(db, req, now), req_id, "APPROVED", now)
                 /\ promotions' = Promoted(promotions, req_id, db.seq.shelters + 1)
                 /\ resp' = redirect("admin_shelter_request_approve", "admin_shelter_requests")
    /\ UNCHANGED <<session, now, conn, lock, uploads>>

\* POST /admin/shelter-requests/<req_id>/reject
admin_shelter_request_reject(req_id) ==
    /\ IF ~require_admin
       THEN /\ resp' = redirect("admin_shelter_request_reject", "admin_login")
            /\ UNCHANGED db
       ELSE /\ db' = SetRequestStatus(db, req_id, "REJECTED", now)
            /\ resp' = redirect("admin_shelter_request_reject", "admin_shelter_requests")
    /\ UNCHANGED <<session, now, seqVars>>

\* POST /admin/shelters/<shelter_id>/delete
admin_shelter_delete(shelter_id) ==
    /\ IF ~require_admin
       THEN /\ resp' = redirect("admin_shelter_delete", "admin_login")
            /\ UNCHANGED db
       ELSE /\ db' = [db EXCEPT !.shelters = Delete(@, shelter_id)]
            /\ resp' = redirect("admin_shelter_delete", "admin_shelters")
    /\ UNCHANGED <<session, now, seqVars>>

\* -------------------------------------------------------------------- Spec
\* the onboarding lifecycle under the administrator's session, request by request.
\* The salts are fixed here; SpecAdmin and SpecRoute draw them.
Next ==
    \/ \E u \in Usernames, p \in Passwords : admin_login(u, p)
    \/ admin_logout
    \/ \E p \in NewPasswords, p2 \in NewPasswords : admin_reset_password_save(p, p2, "s2")
    \/ admin_dashboard
    \/ \E form \in ApplyForms : shelter_apply(form, "s1")
    \/ \E req_id \in RequestIds : admin_shelter_request_approve(req_id)
    \/ \E req_id \in RequestIds : admin_shelter_request_reject(req_id)
    \/ \E shelter_id \in ShelterIds : admin_shelter_delete(shelter_id)

Spec == Init /\ [][Next]_vars

\* request.form of POST /admin/profile
ProfileForms ==
    {[full_name |-> "Admin", email |-> "admin@local", phone |-> ""],
     [full_name |-> "Ana", email |-> "ana@x", phone |-> "0733"]}

\* /admin/profile
admin_profile(method, form) ==
    /\ IF ~require_admin
       THEN /\ resp' = redirect("admin_profile", "admin_login")
            /\ UNCHANGED db
       ELSE /\ db' = IF method = "POST"
                     THEN [db EXCEPT !.admins = [i \in DOMAIN @ |->
                            IF i = session.admin_id
                            THEN [@[i] EXCEPT !.full_name = form.full_name,
                                              !.email = form.email, !.phone = form.phone]
                            ELSE @[i]]]
                     ELSE db
            /\ resp' = IF session.admin_id \in DOMAIN db.admins
                       THEN render_template("admin_profile", "admin_profile.html")
                       ELSE raise("admin_profile", "TypeError")
    /\ UNCHANGED <<session, now, seqVars>>

\* ----------------------------------------------------------------- SpecAdmin
\* the administrators' credentials alone: login, the forced reset, the profile and
\* the out-of-band reset script, over every password of Passwords
NextAdmin ==
    \/ \E u \in Usernames, p \in Passwords : admin_login(u, p)
    \/ admin_logout
    \/ admin_reset_password
    \/ \E p \in Passwords, p2 \in Passwords, salt \in Salts : admin_reset_password_save(p, p2, salt)
    \/ \E salt \in Salts : main(salt)
    \/ admin_dashboard
    \/ \E m \in {"GET", "POST"}, form \in ProfileForms : admin_profile(m, form)

\* a second administrator: no handler inserts one, the row is added to the store
\* directly
SecondAdmin ==
    [username |-> "root", password_hash |-> generate_password_hash("pw1", "s1"),
     full_name |-> "", email |-> "", phone |-> "", must_reset_password |-> 1]

\* the seeded store, alone or with a second administrator
InitAdmin ==
    \E salt \in Salts :
        \/ InitWith(init_db(salt), 0)
        \/ InitWith([init_db(salt) EXCEPT !.admins = Insert(@, 2, SecondAdmin),
                                          !.seq.admins = 2], 0)

SpecAdmin == InitAdmin /\ [][NextAdmin]_vars

\* ------------------------------------------------------------------ Members
MaxUsers == 2

\* request.form of POST /register/utilizator
RegisterForm(email, password, password2) ==
    [first_name |-> "Ion", last_name |-> "Pop", email |-> email, phone |-> "0744",
     password |-> password, password2 |-> password2]
RegisterForms ==
    {RegisterForm("a@x", "pw1", "pw1"), RegisterForm(" A@X ", "pw1", "pw1"),
     RegisterForm("b@x", "pw1", "pw1"), RegisterForm("", "pw1", "pw1"),
     RegisterForm("a@x", "", ""), RegisterForm("a@x", "pw1", "pw2")}

\* the users.email UNIQUE index never refuses a row
UserEmailTaken_Never(d, email) == FALSE

\* users.email is UNIQUE
UserEmailTaken(d, email) == \E i \in DOMAIN d.users : d.users[i].email = email

\* POST /register/utilizator
register_user(form, salt) ==
    LET email == strip_lower(form.email) IN
    /\ IF email = "" \/ form.password = ""
       THEN /\ resp' = render_template("register_user", "register_user.html")
            /\ UNCHANGED db
       ELSE IF form.password # form.password2
       THEN /\ resp' = render_template("register_user", "register_user.html")
            /\ UNCHANGED db
       ELSE IF UserEmailTaken(db, email)
       THEN /\ resp' = render_template("register_user", "register_user.html")
            /\ UNCHANGED db
       ELSE LET id == db.seq.users + 1
                row == [first_name |-> form.first_name, last_name |-> form.last_name,
                        email |-> email, phone |-> form.phone,
                        password_hash |-> generate_password_hash(form.password, salt)]
            IN /\ id <= MaxUsers
               /\ db' = [db EXCEPT !.users = Insert(@, id, row), !.seq.users = id]
               /\ resp' = redirect("register_user", "login_utilizator")
    /\ UNCHANGED <<session, now, seqVars>>

\* current_user(): the member row of the session's user_id, 0 for None
current_user ==
    IF session.user_id # 0 /\ session.user_id \in DOMAIN db.users
    THEN session.user_id ELSE 0

LoginEmails == {"", "a@x", " A@X ", "b@x"}
LoginPasswords == {"", "pw1", "pw2"}

\* POST /login/utilizator
login_utilizator(raw_email, password) ==
    LET email == strip_lower(raw_email)
        found == {i \in DOMAIN db.users : db.users[i].email = email}
    IN
    /\ IF email = "" \/ password = ""
       THEN /\ resp' = flash(render_template("login_utilizator", "login_user.html"),
                              "Emailul si parola sunt obligatorii.")
            /\ UNCHANGED session
       ELSE IF found = {} \/ ~check_password_hash(db.users[CHOOSE i \in found : TRUE].password_hash, password)
       THEN /\ resp' = flash(render_template("login_utilizator", "login_user.html"),
                              "Email sau parola incorecte.")
            /\ UNCHANGED session
       ELSE /\ session' = [session EXCEPT !.user_id = CHOOSE i \in found : TRUE]
            /\ resp' = flash(redirect("login_utilizator", "home"), "Autentificat cu succes.")
    /\ UNCHANGED <<db, now, seqVars>>

\* GET /logout
logout ==
    /\ session' = [session EXCEPT !.user_id = 0]
    /\ resp' = redirect("logout", "home")
    /\ UNCHANGED <<db, now, seqVars>>

\* --------------------------------------------------------- Assistance Router
MaxDonations == 1
MaxRouteShelters == 3

Categories == {"materials", "money", "volunteer", "food"}
UrgentLevels == {0, 3, 5}

\* request.form of POST /ajuta/<category>; shelter_ids is form.getlist("shelter_ids")
RouteForm(mode, amount, shelter_ids) ==
    [mode |-> mode, amount |-> amount, shelter_ids |-> shelter_ids,
     details |-> "hrana", message |-> ""]

\* every mode with every selection, an absent and a malformed amount, and a
\* malformed shelter id
RouteForms ==
    {RouteForm(mode, "10", ids) : mode \in {"", "auto", "manual"},
                                  ids \in {<<>>, <<"2", "1">>, <<"9">>}}
    \cup {RouteForm("auto", "", <<>>), RouteForm("auto", "abc", <<>>),
          RouteForm("manual", "10", <<"x", "1">>)}

\* float(request.form.get("amount") or 0): Null stands for ValueError
float(text) ==
    IF text = "" THEN Some(0)
    ELSE IF text = "10" THEN Some(10)
    ELSE Null

\* int(chosen_ids[0]): Null stands for ValueError
int(text) ==
    IF text = "1" THEN Some(1)
    ELSE IF text = "2" THEN Some(2)
    ELSE IF text = "3" THEN Some(3)
    ELSE IF text = "9" THEN Some(9)
    ELSE Null

\* ORDER BY urgent_level DESC, id DESC: row a sorts before row b
Before_Ascending(shs, a, b) ==
    \/ shs[a].urgent_level < shs[b].urgent_level
    \/ shs[a].urgent_level = shs[b].urgent_level /\ a < b

Before(shs, a, b) ==
    \/ shs[a].urgent_level > shs[b].urgent_level
    \/ shs[a].urgent_level = shs[b].urgent_level /\ a > b

RECURSIVE OrderedIds(_, _)
OrderedIds(shs, ids) ==
    IF ids = {} THEN <<>>
    ELSE LET first == CHOOSE a \in ids : \A b \in ids \ {a} : Before(shs, a, b)
         IN <<first>> \o OrderedIds(shs, ids \ {first})

\* SELECT * FROM shelters ORDER BY urgent_level DESC, id DESC
SelectShelters(d) == OrderedIds(d.shelters, DOMAIN d.shelters)

\* the first of the ordering whatever the mode
Target_Ordered(d, form) ==
    LET shelters == SelectShelters(d)
    IN IF shelters # <<>> THEN Some(shelters[1]) ELSE Some(0)

\* the target: the first chosen id in manual mode, else the first of the ordering,
\* else 0; Null when int() raises
Target(d, form) ==
    LET mode == IF form.mode = "" THEN "auto" ELSE form.mode
        shelters == SelectShelters(d)
    IN IF mode = "manual" /\ form.shelter_ids # <<>>
       THEN int(form.shelter_ids[1])
       ELSE IF shelters # <<>> THEN Some(shelters[1]) ELSE Some(0)

\* /ajuta/<category> without the test of the category
ajuta_category_AnyCategory(category, method, form) ==
    /\ IF current_user = 0
       THEN /\ resp' = redirect("ajuta_category", "login_utilizator")
            /\ UNCHANGED db
       ELSE IF method # "POST"
       THEN /\ resp' = render_template("ajuta_category", "ajuta_category.html")
            /\ UNCHANGED db
       ELSE IF float(form.amount) = Null \/ Target(db, form) = Null
       THEN /\ resp' = raise("ajuta_category", "ValueError")
            /\ UNCHANGED db
       ELSE LET id == db.seq.donations + 1
                row == [user_id |-> current_user, category |-> category,
                        shelter_id |-> Target(db, form)[1],
                        amount |-> float(form.amount)[1],
                        details |-> form.details, message |-> form.message]
            IN /\ id <= MaxDonations
               /\ db' = [db EXCEPT !.donations = Insert(@, id, row), !.seq.donations = id]
               /\ resp' = redirect("ajuta_category", "ajuta")
    /\ UNCHANGED <<session, now, seqVars>>

\* /ajuta/<category>
ajuta_category(category, method, form) ==
    /\ IF category \notin {"materials", "money", "volunteer"}
       THEN /\ resp' = abort("ajuta_category", "404")
            /\ UNCHANGED db
       ELSE IF current_user = 0
       THEN /\ resp' = redirect("ajuta_category", "login_utilizator")
            /\ UNCHANGED db
       ELSE IF method # "POST"
       THEN /\ resp' = render_template("ajuta_category", "ajuta_category.html")
            /\ UNCHANGED db
       ELSE IF float(form.amount) = Null \/ Target(db, form) = Null
       THEN /\ resp' = raise("ajuta_category", "ValueError")
            /\ UNCHANGED db
       ELSE LET id == db.seq.donations + 1
                row == [user_id |-> current_user, category |-> category,
                        shelter_id |-> Target(db, form)[1],
                        amount |-> float(form.amount)[1],
                        details |-> form.details, message |-> form.message]
            IN /\ id <= MaxDonations
               /\ db' = [db EXCEPT !.donations = Insert(@, id, row), !.seq.donations = id]
               /\ resp' = redirect("ajuta_category", "ajuta")
    /\ UNCHANGED <<session, now, seqVars>>

\* ----------------------------------------------------------------- SpecRoute
ShelterEmails == <<"a@x", "b@x", "c@x", "d@x", "e@x">>

\* a shelters table as approve leaves it (rowids in order of creation), with the
\* urgent_level column at any of UrgentLevels: no handler writes that column, it
\* is set on the store directly
RouteShelterRow(id, level) ==
    [ShelterRow([name |-> "Paws", email |-> ShelterEmails[id], phone |-> "0722",
                 address |-> "Str. 1", description |-> "dogs", website |-> "paws.ro",
                 photo_filename |-> <<>>,
                 password_hash |-> generate_password_hash("pw1", "s1"),
                 shelter_type |-> "General", pickup_service |-> 1], id \div 2)
     EXCEPT !.urgent_level = level]

InitRoute ==
    \E ids \in SUBSET (1..MaxRouteShelters) :
        \E level \in [ids -> UrgentLevels] :
            InitWith([init_db("s1") EXCEPT
                        !.shelters = [id \in ids |-> RouteShelterRow(id, level[id])],
                        !.seq.shelters = MaxRouteShelters],
                     MaxRouteShelters \div 2)

NextRoute ==
    \/ \E form \in RegisterForms : register_user(form, "s2")
    \/ \E e \in LoginEmails, p \in LoginPasswords : login_utilizator(e, p)
    \/ logout
    \/ \E category \in Categories, form \in RouteForms :
        ajuta_category(category, "POST", form)
    \/ \E category \in Categories : ajuta_category(category, "GET", RouteForm("", "", <<>>))

SpecRoute == InitRoute /\ [][NextRoute]_vars

\* ------------------------------------------------------------------ SpecConc
\* admin_shelter_request_approve statement by statement, one request per worker,
\* each on the connection its get_db() opened. sqlite3 opens a transaction before
\* the first INSERT/UPDATE (not before the SELECT) and the INSERT takes SQLite's
\* RESERVED lock, which one connection holds at a time; conn[w].tx is the store as
\* that connection sees it inside its transaction, invisible to the others until
\* conn.commit().

Raised(c, exception) == [c EXCEPT !.pc = "raised", !.result = exception]

\* require_admin, get_db(), SELECT * FROM shelter_requests WHERE id=?, abort(404)
approve_select(w, req_id) ==
    /\ conn[w].pc = "idle"
    /\ conn' = [conn EXCEPT ![w] =
        IF ~require_admin
        THEN [@ EXCEPT !.pc = "closed", !.req_id = req_id, !.result = "redirect"]
        ELSE IF req_id \notin DOMAIN db.shelter_requests
        THEN [@ EXCEPT !.pc = "closed", !.req_id = req_id, !.result = "404"]
        ELSE [@ EXCEPT !.pc = "selected", !.req_id = req_id,
                       !.req = Some(db.shelter_requests[req_id])]]
    /\ UNCHANGED <<db, session, now, resp, promotions, uploads, lock>>

\* the INSERT written through at once, as on a connection in autocommit mode
approve_insert_autocommit(w) ==
    /\ conn[w].pc = "selected"
    /\ lock = 0
    /\ LET req == conn[w].req[1] IN
        IF EmailTaken(db, req.email)
        THEN /\ conn' = [conn EXCEPT ![w] = [Raised(@, "IntegrityError") EXCEPT !.tx = Some(db)]]
             /\ lock' = w
             /\ UNCHANGED db
        ELSE /\ db.seq.shelters < MaxShelters
             /\ db' = InsertShelter(db, req, now)
             /\ conn' = [conn EXCEPT ![w] =
                    [@ EXCEPT !.pc = "inserted", !.tx = Some(InsertShelter(db, req, now))]]
             /\ lock' = w
    /\ UNCHANGED <<session, now, resp, promotions, uploads>>

\* INSERT INTO shelters ...: BEGIN, the RESERVED lock, the row or IntegrityError
approve_insert(w) ==
    /\ conn[w].pc = "selected"
    /\ lock = 0
    /\ LET req == conn[w].req[1] IN
        IF EmailTaken(db, req.email)
        THEN conn' = [conn EXCEPT ![w] = [Raised(@, "IntegrityError") EXCEPT !.tx = Some(db)]]
        ELSE /\ db.seq.shelters < MaxShelters
             /\ conn' = [conn EXCEPT ![w] =
                    [@ EXCEPT !.pc = "inserted", !.tx = Some(InsertShelter(db, req, now))]]
    /\ lock' = w
    /\ UNCHANGED <<db, session, now, resp, promotions, uploads>>

\* the INSERT while another connection holds the lock past the busy timeout:
\* sqlite3.OperationalError, database is locked
approve_busy(w) ==
    /\ conn[w].pc = "selected"
    /\ lock \notin {0, w}
    /\ conn' = [conn EXCEPT ![w] = Raised(@, "OperationalError")]
    /\ UNCHANGED <<db, session, now, resp, promotions, uploads, lock>>

\* UPDATE shelter_requests SET status='APPROVED', reviewed_at=datetime('now')
approve_update(w) ==
    /\ conn[w].pc = "inserted"
    /\ conn' = [conn EXCEPT ![w] =
        [@ EXCEPT !.pc = "updated",
                  !.tx = Some(SetRequestStatus(@[1], conn[w].req_id, "APPROVED", now))]]
    /\ UNCHANGED <<db, session, now, resp, promotions, uploads, lock>>

\* conn.commit(); conn.close(); redirect
approve_commit(w) ==
    /\ conn[w].pc = "updated"
    /\ db' = conn[w].tx[1]
    /\ lock' = 0
    /\ promotions' = Promoted(promotions, conn[w].req_id, conn[w].tx[1].seq.shelters)
    /\ conn' = [conn EXCEPT ![w] = [@ EXCEPT !.pc = "closed", !.tx = Null, !.result = "ok"]]
    /\ UNCHANGED <<session, now, resp, uploads>>

\* the handler stops between two statements: an exception, or the process is killed
cut_short(w) ==
    /\ conn[w].pc \in {"selected", "inserted", "updated"}
    /\ conn' = [conn EXCEPT ![w] = Raised(@, "cut_short")]
    /\ UNCHANGED <<db, session, now, resp, promotions, uploads, lock>>

\* the connection of a handler that raised is closed without a commit: SQLite
\* rolls its open transaction back and frees its lock
rollback(w) ==
    /\ conn[w].pc = "raised"
    /\ conn' = [conn EXCEPT ![w] = [@ EXCEPT !.pc = "closed", !.tx = Null]]
    /\ lock' = IF lock = w THEN 0 ELSE lock
    /\ UNCHANGED <<db, session, now, resp, promotions, uploads>>

NextConc ==
    \/ \E u \in Usernames, p \in Passwords : admin_login(u, p)
    \/ lock = 0 /\ \E form \in ApplyForms : shelter_apply(form, "s1")
    \/ \E w \in Workers, req_id \in RequestIds : approve_select(w, req_id)
    \/ \E w \in Workers : approve_insert(w)
    \/ \E w \in Workers : approve_busy(w)
    \/ \E w \in Workers : approve_update(w)
    \/ \E w \in Workers : approve_commit(w)
    \/ \E w \in Workers : cut_short(w)
    \/ \E w \in Workers : rollback(w)

SpecConc == Init /\ [][NextConc]_vars

\* ------------------------------------------------------------------- SpecReg
\* register_user statement by statement on two workers, each on its own
\* connection: the form checks, then the INSERT inside the transaction sqlite3
\* opens for it, then conn.commit().
\* the form checks of register_user, before get_db()
register_post(w, form, salt) ==
    /\ conn[w].pc = "idle"
    /\ conn' = [conn EXCEPT ![w] =
        IF strip_lower(form.email) = "" \/ form.password = "" \/ form.password # form.password2
        THEN [@ EXCEPT !.pc = "closed", !.req = Some(form), !.result = "invalid"]
        ELSE [@ EXCEPT !.pc = "posted",
                       !.req = Some([form EXCEPT
                                !.email = strip_lower(form.email),
                                !.password = generate_password_hash(form.password, salt)])]]
    /\ UNCHANGED <<db, session, now, resp, promotions, uploads, lock>>

\* INSERT INTO users ...: BEGIN, the RESERVED lock, the row or IntegrityError,
\* which the handler catches
register_insert(w) ==
    /\ conn[w].pc = "posted"
    /\ lock = 0
    /\ LET form == conn[w].req[1]
           id == db.seq.users + 1
           row == [first_name |-> form.first_name, last_name |-> form.last_name,
                   email |-> form.email, phone |-> form.phone,
                   password_hash |-> form.password]
       IN IF UserEmailTaken(db, form.email)
          THEN conn' = [conn EXCEPT ![w] = [Raised(@, "duplicate") EXCEPT !.tx = Some(db)]]
          ELSE /\ id <= MaxUsers
               /\ conn' = [conn EXCEPT ![w] =
                    [@ EXCEPT !.pc = "registered",
                              !.tx = Some([db EXCEPT !.users = Insert(@, id, row),
                                                     !.seq.users = id])]]
    /\ lock' = w
    /\ UNCHANGED <<db, session, now, resp, promotions, uploads>>

\* the INSERT while another connection holds the lock past the busy timeout:
\* sqlite3.OperationalError, which the handler does not catch
register_busy(w) ==
    /\ conn[w].pc = "posted"
    /\ lock \notin {0, w}
    /\ conn' = [conn EXCEPT ![w] = Raised(@, "OperationalError")]
    /\ UNCHANGED <<db, session, now, resp, promotions, uploads, lock>>

\* conn.commit(); conn.close(); redirect to the login page
register_commit(w) ==
    /\ conn[w].pc = "registered"
    /\ db' = conn[w].tx[1]
    /\ lock' = 0
    /\ conn' = [conn EXCEPT ![w] = [@ EXCEPT !.pc = "closed", !.tx = Null, !.result = "ok"]]
    /\ UNCHANGED <<session, now, resp, promotions, uploads>>

\* the worker takes its next request
next_request(w) ==
    /\ conn[w].pc = "closed"
    /\ conn' = [conn EXCEPT ![w] = IdleConn]
    /\ UNCHANGED <<db, session, now, resp, promotions, uploads, lock>>

NextReg ==
    \/ \E w \in Workers, form \in RegisterForms, salt \in Salts : register_post(w, form, salt)
    \/ \E w \in Workers : register_insert(w)
    \/ \E w \in Workers : register_busy(w)
    \/ \E w \in Workers : register_commit(w)
    \/ \E w \in Workers : rollback(w)
    \/ \E w \in Workers : next_request(w)

SpecReg == Init /\ [][NextReg]_vars

\* ---------------------------------------------------------- Shelter sessions
MaxAnimals == 1

\* current_shelter(): the shelter row of the session's shelter_id, 0 for None
current_shelter ==
    IF session.shelter_id # 0 /\ session.shelter_id \in DOMAIN db.shelters
    THEN session.shelter_id ELSE 0

\* session.clear()
logout_adapost_ClearsAll ==
    /\ session' = [user_id |-> 0, admin_id |-> 0, shelter_id |-> 0]
    /\ resp' = redirect("logout_adapost", "home")
    /\ UNCHANGED <<db, now, seqVars>>

\* GET /shelter/logout
logout_adapost ==
    /\ session' = [session EXCEPT !.shelter_id = 0]
    /\ resp' = redirect("logout_adapost", "home")
    /\ UNCHANGED <<db, now, seqVars>>

\* POST /login/adapost
login_adapost(raw_email, password) ==
    LET email == strip_lower(raw_email)
        found == {i \in DOMAIN db.shelters : db.shelters[i].email = email}
    IN
    /\ IF email = "" \/ password = ""
       THEN /\ resp' = flash(render_template("login_adapost", "login_shelter.html"),
                              "Emailul si parola sunt obligatorii.")
            /\ UNCHANGED session
       ELSE IF \/ found = {}
               \/ db.shelters[CHOOSE i \in found : TRUE].password_hash = ""
               \/ ~check_password_hash(db.shelters[CHOOSE i \in found : TRUE].password_hash, password)
       THEN /\ resp' = flash(render_template("login_adapost", "login_shelter.html"),
                              "Email sau parola incorecte (sau adapostul nu e aprobat).")
            /\ UNCHANGED session
       ELSE /\ session' = [session EXCEPT !.shelter_id = CHOOSE i \in found : TRUE]
            /\ resp' = flash(redirect("login_adapost", "shelter_dashboard"), "Adapost autentificat.")
    /\ UNCHANGED <<db, now, seqVars>>

\* GET /shelter/dashboard
shelter_dashboard ==
    /\ IF session.shelter_id = 0
       THEN /\ resp' = redirect("shelter_dashboard", "login_adapost")
            /\ UNCHANGED session
       ELSE IF current_shelter = 0
       THEN /\ session' = [session EXCEPT !.shelter_id = 0]
            /\ resp' = redirect("shelter_dashboard", "login_adapost")
       ELSE /\ resp' = render_template("shelter_dashboard", "shelter_dashboard.html")
            /\ UNCHANGED session
    /\ UNCHANGED <<db, now, seqVars>>

AnimalNames == {"", " Rex "}

\* name.strip()
strip(text) == IF text = " Rex " THEN "Rex" ELSE text

\* POST /shelter/animals/add, no photo attached
shelter_animals_add(name) ==
    /\ IF session.shelter_id = 0
       THEN /\ resp' = redirect("shelter_animals_add", "login_adapost")
            /\ UNCHANGED <<db, session>>
       ELSE IF current_shelter = 0
       THEN /\ session' = [session EXCEPT !.shelter_id = 0]
            /\ resp' = redirect("shelter_animals_add", "login_adapost")
            /\ UNCHANGED db
       ELSE IF strip(name) = ""
       THEN /\ resp' = redirect("shelter_animals_add", "shelter_dashboard")
            /\ UNCHANGED <<db, session>>
       ELSE LET id == db.seq.animals + 1
                row == [shelter_id |-> current_shelter, name |-> strip(name),
                        species |-> "", age |-> "", story |-> "", photo_filename |-> <<>>]
            IN /\ id <= MaxAnimals
               /\ db' = [db EXCEPT !.animals = Insert(@, id, row), !.seq.animals = id]
               /\ resp' = redirect("shelter_animals_add", "shelter_dashboard")
               /\ UNCHANGED session
    /\ UNCHANGED <<now, seqVars>>

UserIds == 0..(MaxUsers + 1)

\* POST /admin/users/<user_id>/delete
admin_user_delete(user_id) ==
    /\ IF ~require_admin
       THEN /\ resp' = redirect("admin_user_delete", "admin_login")
            /\ UNCHANGED db
       ELSE /\ db' = [db EXCEPT !.users = Delete(@, user_id)]
            /\ resp' = redirect("admin_user_delete", "admin_users")
    /\ UNCHANGED <<session, now, seqVars>>

\* request.form of POST /admin/users/<user_id>/edit
UserEditForms == {[first_name |-> " Rex ", last_name |-> "Pop", phone |-> ""]}

\* /admin/users/<user_id>/edit
admin_user_edit(user_id, method, form) ==
    /\ IF ~require_admin
       THEN /\ resp' = redirect("admin_user_edit", "admin_login")
            /\ UNCHANGED db
       ELSE IF user_id \notin DOMAIN db.users
       THEN /\ resp' = abort("admin_user_edit", "404")
            /\ UNCHANGED db
       ELSE IF method = "POST"
       THEN /\ db' = [db EXCEPT !.users[user_id] =
                        [@ EXCEPT !.first_name = strip(form.first_name),
                                  !.last_name = strip(form.last_name),
                                  !.phone = strip(form.phone)]]
            /\ resp' = redirect("admin_user_edit", "admin_users")
       ELSE /\ resp' = render_template("admin_user_edit", "admin_user_edit.html")
            /\ UNCHANGED db
    /\ UNCHANGED <<session, now, seqVars>>

\* ----------------------------------------------------------------- SpecGuard
\* every administrative mutation, with and without the administrator's session,
\* over a store that members and applicants fill
NextGuard ==
    \/ admin_login("admin", "admin")
    \/ admin_logout
    \/ register_user(RegisterForm("a@x", "pw1", "pw1"), "s1")
    \/ shelter_apply(Form("Paws", "a@x", "pw1", "pw1", BlankExtras), "s1")
    \/ \E req_id \in RequestIds : admin_shelter_request_approve(req_id)
    \/ \E req_id \in RequestIds : admin_shelter_request_reject(req_id)
    \/ \E user_id \in UserIds, method \in {"GET", "POST"}, form \in UserEditForms :
        admin_user_edit(user_id, method, form)
    \/ \E user_id \in UserIds : admin_user_delete(user_id)
    \/ \E shelter_id \in ShelterIds : admin_shelter_delete(shelter_id)
    \/ \E method \in {"GET", "POST"}, form \in ProfileForms : admin_profile(method, form)
    \/ \E p \in NewPasswords, p2 \in Passwords : admin_reset_password_save(p, p2, "s2")

SpecGuard == Init /\ [][NextGuard]_vars

\* ----------------------------------------------------------------- SpecEmail
\* members and shelters side by side: registration, application, promotion and
\* shelter deletion over the one store
NextEmail ==
    \/ \E u \in Usernames, p \in Passwords : admin_login(u, p)
    \/ \E form \in RegisterForms : register_user(form, "s1")
    \/ \E form \in ApplyForms : shelter_apply(form, "s1")
    \/ \E req_id \in RequestIds : admin_shelter_request_approve(req_id)
    \/ \E shelter_id \in ShelterIds : admin_shelter_delete(shelter_id)

SpecEmail == Init /\ [][NextEmail]_vars

\* ------------------------------------------------------------------ SpecSeed
\* the admin seeding at the end of init_db statement by statement, on the two
\* workers' own connections: SELECT COUNT(*) outside any transaction, then for a
\* count of 0 the INSERT inside the transaction sqlite3 opens for it, then
\* conn.commit().

\* the store as the CREATE TABLE IF NOT EXISTS statements leave a fresh file
CreatedTables == [init_db("s1") EXCEPT !.admins = EmptyTable, !.seq.admins = 0]

\* a fresh store, or one seeded by an earlier run
InitSeed == \/ InitWith(CreatedTables, 0)
            \/ \E salt \in Salts : InitWith(init_db(salt), 0)

\* SELECT COUNT(*) AS c FROM admins
seed_count(w) ==
    /\ conn[w].pc = "idle"
    /\ conn' = [conn EXCEPT ![w] =
        [@ EXCEPT !.pc = "counted", !.req = Some(Cardinality(DOMAIN db.admins))]]
    /\ UNCHANGED <<db, session, now, resp, promotions, uploads, lock>>

\* cnt # 0: conn.close()
seed_skip(w) ==
    /\ conn[w].pc = "counted"
    /\ conn[w].req[1] # 0
    /\ conn' = [conn EXCEPT ![w] = [@ EXCEPT !.pc = "closed", !.result = "ok"]]
    /\ UNCHANGED <<db, session, now, resp, promotions, uploads, lock>>

\* the INSERT with no UNIQUE index on admins.username
seed_insert_NoUnique(w, salt) ==
    /\ conn[w].pc = "counted"
    /\ conn[w].req[1] = 0
    /\ lock = 0
    /\ conn' = [conn EXCEPT ![w] =
            [@ EXCEPT !.pc = "seeded",
                      !.tx = Some([db EXCEPT
                            !.admins = Insert(@, db.seq.admins + 1, DefaultAdmin(salt)),
                            !.seq.admins = db.seq.admins + 1])]]
    /\ lock' = w
    /\ UNCHANGED <<db, session, now, resp, promotions, uploads>>

\* cnt == 0: INSERT INTO admins ...: BEGIN, the RESERVED lock, the row or
\* IntegrityError on admins.username UNIQUE
seed_insert(w, salt) ==
    /\ conn[w].pc = "counted"
    /\ conn[w].req[1] = 0
    /\ lock = 0
    /\ IF AdminsNamed(db, "admin") # {}
       THEN conn' = [conn EXCEPT ![w] = [Raised(@, "IntegrityError") EXCEPT !.tx = Some(db)]]
       ELSE conn' = [conn EXCEPT ![w] =
            [@ EXCEPT !.pc = "seeded",
                      !.tx = Some([db EXCEPT
                            !.admins = Insert(@, db.seq.admins + 1, DefaultAdmin(salt)),
                            !.seq.admins = db.seq.admins + 1])]]
    /\ lock' = w
    /\ UNCHANGED <<db, session, now, resp, promotions, uploads>>

\* the INSERT while another connection holds the lock past the busy timeout
seed_busy(w) ==
    /\ conn[w].pc = "counted"
    /\ conn[w].req[1] = 0
    /\ lock \notin {0, w}
    /\ conn' = [conn EXCEPT ![w] = Raised(@, "OperationalError")]
    /\ UNCHANGED <<db, session, now, resp, promotions, uploads, lock>>

\* conn.commit(); conn.close()
seed_commit(w) ==
    /\ conn[w].pc = "seeded"
    /\ db' = conn[w].tx[1]
    /\ lock' = 0
    /\ conn' = [conn EXCEPT ![w] = [@ EXCEPT !.pc = "closed", !.tx = Null, !.result = "ok"]]
    /\ UNCHANGED <<session, now, resp, promotions, uploads>>

NextSeed ==
    \/ \E w \in Workers : seed_count(w)
    \/ \E w \in Workers : seed_skip(w)
    \/ \E w \in Workers, salt \in Salts : seed_insert(w, salt)
    \/ \E w \in Workers : seed_busy(w)
    \/ \E w \in Workers : seed_commit(w)
    \/ \E w \in Workers : rollback(w)
    \/ \E w \in Workers : next_request(w)
    \/ lock = 0 /\ \E salt \in Salts : main(salt)

SpecSeed == InitSeed /\ [][NextSeed]_vars

\* --------------------------------------------------------------- SpecSession
\* the three roles' sessions in one caller context: the logins and logouts of
\* members, shelters and administrators over the onboarding lifecycle
NextSession ==
    \/ \E u \in Usernames, p \in Passwords : admin_login(u, p)
    \/ admin_logout
    \/ \E form \in RegisterForms : register_user(form, "s1")
    \/ \E e \in LoginEmails, p \in LoginPasswords : login_utilizator(e, p)
    \/ logout
    \/ \E form \in ApplyForms : shelter_apply(form, "s2")
    \/ \E req_id \in RequestIds : admin_shelter_request_approve(req_id)
    \/ \E e \in LoginEmails, p \in LoginPasswords : login_adapost(e, p)
    \/ logout_adapost

SpecSession == Init /\ [][NextSession]_vars

\* ----------------------------------------------------------------- SpecStale
\* sessions that outlive their rows: the administrator deletes members and
\* shelters while their tokens are bound, and the member and shelter operations
\* are attempted under those tokens
NextStale ==
    \/ admin_login("admin", "admin")
    \/ register_user(RegisterForm("a@x", "pw1", "pw1"), "s1")
    \/ login_utilizator("a@x", "pw1")
    \/ \E user_id \in UserIds : admin_user_delete(user_id)
    \/ ajuta_category("money", "POST", RouteForm("manual", "10", <<"9">>))
    \/ shelter_apply(Form("Paws", "a@x", "pw1", "pw1", FilledExtras), "s2")
    \/ \E req_id \in RequestIds : admin_shelter_request_approve(req_id)
    \/ login_adapost("a@x", "pw1")
    \/ \E shelter_id \in ShelterIds : admin_shelter_delete(shelter_id)
    \/ shelter_dashboard
    \/ \E name \in AnimalNames : shelter_animals_add(name)

SpecStale == Init /\ [][NextStale]_vars

\* --------------------------------------------------------------- SpecOnboard
\* a candidate's credentials from submission to shelter login: application, the
\* administrator's decisions and deletions, and the shelter login
NextOnboard ==
    \/ \E p \in Passwords : admin_login("admin", p)
    \/ \E form \in ApplyForms : shelter_apply(form, "s1")
    \/ \E req_id \in RequestIds : admin_shelter_request_approve(req_id)
    \/ \E req_id \in RequestIds : admin_shelter_request_reject(req_id)
    \/ \E shelter_id \in ShelterIds : admin_shelter_delete(shelter_id)
    \/ \E e \in LoginEmails, p \in LoginPasswords : login_adapost(e, p)
    \/ logout_adapost

SpecOnboard == Init /\ [][NextOnboard]_vars

\* ---------------------------------------------------------------- SpecUrgent
\* routing over the shelters the application itself creates: applications,
\* promotions and deletions under the administrator, and a member who asks for
\* help in auto and in manual mode
UrgentForms ==
    {RouteForm("auto", "10", <<>>), RouteForm("manual", "10", <<>>),
     RouteForm("manual", "10", <<"1">>)}

NextUrgent ==
    \/ admin_login("admin", "admin")
    \/ \E email \in {"a@x", "b@x"} :
        shelter_apply(Form("Paws", email, "pw1", "pw1", BlankExtras), "s1")
    \/ \E req_id \in RequestIds : admin_shelter_request_approve(req_id)
    \/ \E shelter_id \in ShelterIds : admin_shelter_delete(shelter_id)
    \/ register_user(RegisterForm("a@x", "pw1", "pw1"), "s1")
    \/ login_utilizator("a@x", "pw1")
    \/ \E form \in UrgentForms : ajuta_category("money", "POST", form)

SpecUrgent == Init /\ [][NextUrgent]_vars

\* ---------------------------------------------------------------- SpecSchema
\* init_db on any petrescue.db, with the schema in view: a store is a function
\* from the names of its tables to their columns (the id apart, which is the
\* rowid), rows and sqlite_sequence counter.

\* the columns of the CREATE TABLE IF NOT EXISTS statements
TableColumns ==
    [users |-> {"first_name", "last_name", "email", "phone", "password_hash"},
     admins |-> {"username", "password_hash", "full_name", "email", "phone",
                 "must_reset_password"},
     shelters |-> {"name", "email", "phone", "address", "description", "website",
                   "photo_filename", "password_hash", "shelter_type", "urgent_level",
                   "pickup_service", "created_at"},
     shelter_requests |-> {"name", "email", "phone", "address", "description", "website",
                           "photo_filename", "password_hash", "shelter_type",
                           "pickup_service", "status", "submitted_at", "reviewed_at"},
     donations |-> {"user_id", "category", "shelter_id", "amount", "details", "message",
                    "created_at"},
     animals |-> {"shelter_id", "name", "species", "age", "story", "photo_filename",
                  "created_at"},
     reports |-> {"reporter_name", "reporter_phone", "reporter_email", "description",
                  "created_at"}]

\* the compatibility list of the "safe migrations", in the order of the calls
Migrations ==
    <<[table |-> "admins", col |-> "must_reset_password", default |-> 1],
      [table |-> "shelters", col |-> "photo_filename", default |-> <<>>],
      [table |-> "shelters", col |-> "password_hash", default |-> <<>>],
      [table |-> "shelters", col |-> "shelter_type", default |-> "General"],
      [table |-> "shelters", col |-> "urgent_level", default |-> 0],
      [table |-> "shelters", col |-> "pickup_service", default |-> 1],
      [table |-> "shelter_requests", col |-> "photo_filename", default |-> <<>>],
      [table |-> "shelter_requests", col |-> "password_hash", default |-> <<>>],
      [table |-> "shelter_requests", col |-> "shelter_type", default |-> "General"],
      [table |-> "shelter_requests", col |-> "pickup_service", default |-> 1]>>

\* CREATE TABLE IF NOT EXISTS: an existing table is left as it is
create_table(store, table) ==
    IF table \in DOMAIN store THEN store
    ELSE (table :> [columns |-> TableColumns[table], rows |-> EmptyTable, seq |-> 0]) @@ store

\* PRAGMA table_info(table): col in cols
_table_has_column(store, table, col) == col \in store[table].columns

\* ALTER TABLE table ADD COLUMN col col_def when the column is missing: the rows
\* there take the DEFAULT
_ensure_column(store, table, col, default) ==
    IF _table_has_column(store, table, col) THEN store
    ELSE [store EXCEPT ![table] =
            [@ EXCEPT !.columns = @ \cup {col},
                      !.rows = [i \in DOMAIN @ |->
                                    [c \in DOMAIN @[i] \cup {col} |->
                                        IF c = col THEN default ELSE @[i][c]]]]]

RECURSIVE ensure_columns(_, _)
ensure_columns(store, list) ==
    IF list = <<>> THEN store
    ELSE ensure_columns(_ensure_column(store, Head(list).table, Head(list).col,
                                       Head(list).default),
                        Tail(list))

\* the INSERT without the COUNT(*) test before it
seed_admin_Always(store, salt) ==
    [store EXCEPT !["admins"] =
        [@ EXCEPT !.rows = Insert(@, store["admins"].seq + 1, DefaultAdmin(salt)),
                  !.seq = @ + 1]]

\* Create default admin if none exists
seed_admin(store, salt) ==
    IF Cardinality(DOMAIN store["admins"].rows) # 0 THEN store
    ELSE [store EXCEPT !["admins"] =
            [@ EXCEPT !.rows = Insert(@, store["admins"].seq + 1, DefaultAdmin(salt)),
                      !.seq = @ + 1]]

\* init_db() on any store: the tables, the migrations, the seeded admin
init_db_on(store, salt) ==
    LET created ==
            create_table(create_table(create_table(create_table(create_table(
            create_table(create_table(store, "users"), "admins"), "shelters"),
            "shelter_requests"), "donations"), "animals"), "reports")
    IN seed_admin(ensure_columns(created, Migrations), salt)

\* a row written before the migrations: a value for each column the table
\* had, none of them the DEFAULT of a migration
StoredRow(columns) ==
    [c \in columns |->
        CASE c \in {"password_hash"} -> <<"s1", "pw1">>
          [] c \in {"photo_filename"} -> <<"c", ".", "p", "n", "g">>
          [] c \in {"must_reset_password", "pickup_service"} -> 0
          [] c \in {"urgent_level"} -> 2
          [] c \in {"shelter_type"} -> "Caini"
          [] c \in {"username"} -> "root"
          [] OTHER -> "x"]

\* the columns a store of an earlier version of the application can lack
Lacking ==
    [admins |-> {{}, {"must_reset_password"}},
     shelters |-> {{}, {"urgent_level"},
                   {"photo_filename", "password_hash", "shelter_type", "urgent_level",
                    "pickup_service"}},
     shelter_requests |-> {{}, {"photo_filename", "password_hash", "shelter_type",
                                "pickup_service"}}]

\* a table of an earlier version, with rows many rows
StoredTable(table, lacking, rows) ==
    [columns |-> TableColumns[table] \ lacking,
     rows |-> [i \in 1..rows |-> StoredRow(TableColumns[table] \ lacking)],
     seq |-> rows]

\* petrescue.db when the application starts: no file yet (no table), or the
\* store of this or an earlier version, each table empty or with a row
InitSchema ==
    \E evolving \in SUBSET {"admins", "shelters", "shelter_requests"},
       others \in {{}, {"users", "donations", "animals", "reports"}} :
        \E lacking \in [evolving -> UNION {Lacking[table] : table \in DOMAIN Lacking}],
           rows \in [evolving -> 0..1] :
            /\ \A table \in evolving : lacking[table] \in Lacking[table]
            /\ InitWith([table \in evolving \cup others |->
                            IF table \in evolving
                            THEN StoredTable(table, lacking[table], rows[table])
                            ELSE StoredTable(table, {}, 0)],
                        0)

\* @app.before_request: init_db()
_init_db_before_requests(salt) ==
    /\ db' = init_db_on(db, salt)
    /\ UNCHANGED <<session, now, resp, seqVars>>

NextSchema == \E salt \in Salts : _init_db_before_requests(salt)

SpecSchema == InitSchema /\ [][NextSchema]_vars

\* ---------------------------------------------------------------- SpecUpload
\* POST /adaposturi/devino on the workers of a threaded server, in the steps at
\* which requests in flight can interleave: each os.path.exists of the loop of
\* save_uploaded_photo, file_storage.save, the INSERT and the commit.
MaxUploads == 3

\* request.files.get("photo"): no part, an empty filename, a refused extension,
\* and names that secure_filename takes to c.png, c_1.png and PNG
UploadFiles ==
    {Null, FileStorage(<<>>, "b1"), FileStorage(<<"c", ".", "e", "x", "e">>, "b1"),
     FileStorage(<<".", "P", "N", "G">>, "b1")}
    \cup {FileStorage(filename, bytes) :
            filename \in {<<"c", ".", "p", "n", "g">>,
                          <<".", ".", "/", "c", ".", "p", "n", "g">>,
                          <<"c", "_", "1", ".", "p", "n", "g">>},
            bytes \in {"b1", "b2"}}

UploadForms ==
    {Form("Paws", "a@x", "pw1", "pw1", [BlankExtras EXCEPT !.photo = file]) :
        file \in UploadFiles}
    \cup {Form("Paws", "a@x", "pw1", "pw2", BlankExtras)}

InFlight == {w \in Workers : conn[w].pc # "idle"}

\* the validation of the form and save_uploaded_photo up to its loop
apply_post(w, form, salt) ==
    /\ conn[w].pc = "idle"
    /\ Cardinality(DOMAIN uploads) + Cardinality(InFlight) < MaxUploads
    /\ db.seq.shelter_requests + Cardinality(InFlight) < MaxUploads
    /\ LET file_storage == form.extras.photo
           request == [form EXCEPT !.email = strip_lower(form.email),
                                   !.password = generate_password_hash(form.password, salt)]
           local == [form |-> request, base |-> <<>>, ext |-> <<>>, candidate |-> <<>>, i |-> 1]
       IN conn' = [conn EXCEPT ![w] =
            IF form.name = "" \/ strip_lower(form.email) = "" \/ form.password = ""
               \/ form.password # form.password2
            THEN [@ EXCEPT !.pc = "closed", !.result = "invalid"]
            ELSE IF file_storage = Null \/ file_storage[1].filename = <<>>
            THEN [@ EXCEPT !.pc = "uploaded", !.req = Some(local)]
            ELSE IF ~allowed_file(file_storage[1].filename)
            THEN [@ EXCEPT !.pc = "uploaded", !.req = Some(local)]
            ELSE LET fname == secure_filename(file_storage[1].filename)
                     parts == splitext(fname)
                 IN [@ EXCEPT !.pc = "probing",
                              !.req = Some([local EXCEPT !.base = parts[1], !.ext = parts[2],
                                                         !.candidate = fname])]]
    /\ UNCHANGED <<db, session, now, resp, promotions, lock, uploads>>

\* one test of the while loop: the next candidate, or out of the loop
upload_exists(w) ==
    /\ conn[w].pc = "probing"
    /\ LET local == conn[w].req[1]
       IN conn' = [conn EXCEPT ![w] =
            IF exists(uploads, local.candidate)
            THEN [@ EXCEPT !.req = Some([local EXCEPT
                            !.candidate = Candidate(local.base, local.i, local.ext),
                            !.i = local.i + 1])]
            ELSE [@ EXCEPT !.pc = "saving"]]
    /\ UNCHANGED <<db, session, now, resp, promotions, lock, uploads>>

\* file_storage.save(os.path.join(UPLOAD_FOLDER, candidate)); return candidate
upload_save(w) ==
    /\ conn[w].pc = "saving"
    /\ LET local == conn[w].req[1]
       IN uploads' = save(uploads, local.candidate, local.form.extras.photo[1].bytes)
    /\ conn' = [conn EXCEPT ![w] = [@ EXCEPT !.pc = "uploaded"]]
    /\ UNCHANGED <<db, session, now, resp, promotions, lock>>

\* INSERT INTO shelter_requests (...): BEGIN, the RESERVED lock, the row
apply_insert(w) ==
    /\ conn[w].pc = "uploaded"
    /\ lock = 0
    /\ LET local == conn[w].req[1]
           form == local.form
           id == db.seq.shelter_requests + 1
           row == [name |-> form.name, email |-> form.email,
                   phone |-> form.extras.phone, address |-> form.extras.address,
                   description |-> form.extras.description,
                   website |-> form.extras.website,
                   photo_filename |-> local.candidate,
                   password_hash |-> form.password,
                   shelter_type |-> "General", pickup_service |-> 1,
                   status |-> "PENDING",
                   reviewed_at |-> Null]
       IN conn' = [conn EXCEPT ![w] =
            [@ EXCEPT !.pc = "applied", !.req_id = id,
                      !.tx = Some([db EXCEPT !.shelter_requests = Insert(@, id, row),
                                             !.seq.shelter_requests = id])]]
    /\ lock' = w
    /\ UNCHANGED <<db, session, now, resp, promotions, uploads>>

\* the INSERT while another connection holds the lock past the busy timeout:
\* sqlite3.OperationalError, which the handler does not catch
apply_busy(w) ==
    /\ conn[w].pc = "uploaded"
    /\ lock \notin {0, w}
    /\ conn' = [conn EXCEPT ![w] = Raised(@, "OperationalError")]
    /\ UNCHANGED <<db, session, now, resp, promotions, lock, uploads>>

\* conn.commit(); conn.close(); redirect to the shelters page
apply_commit(w) ==
    /\ conn[w].pc = "applied"
    /\ db' = conn[w].tx[1]
    /\ lock' = 0
    /\ conn' = [conn EXCEPT ![w] = [@ EXCEPT !.pc = "closed", !.tx = Null, !.result = "ok"]]
    /\ UNCHANGED <<session, now, resp, promotions, uploads>>

NextUpload ==
    \/ \E w \in Workers, form \in UploadForms : apply_post(w, form, "s1")
    \/ \E w \in Workers : upload_exists(w)
    \/ \E w \in Workers : upload_save(w)
    \/ \E w \in Workers : apply_insert(w)
    \/ \E w \in Workers : apply_busy(w)
    \/ \E w \in Workers : apply_commit(w)
    \/ \E w \in Workers : rollback(w)
    \/ \E w \in Workers : next_request(w)

SpecUpload == Init /\ [][NextUpload]_vars

\* ================================================================== claims

\* the administrative routes behind require_admin other than the reset flow's own
GatedRoutes ==
    {"admin_dashboard", "admin_profile", "admin_shelter_request_approve",
     "admin_shelter_request_reject", "admin_shelter_delete"}

\* a step that served a request to route: only its handler writes that route to resp
Served(routes) == resp'.route \in routes /\ (resp' # resp \/ db' # db)

NewShelters == DOMAIN db'.shelters \ DOMAIN db.shelters

RequestsChanged ==
    \E r \in DOMAIN db.shelter_requests : db'.shelter_requests[r] # db.shelter_requests[r]

\* the ten onboarding fields of a Shelter row are those of the request
CopiedFields(sh, req) ==
    /\ sh.name = req.name
    /\ sh.email = req.email
    /\ sh.phone = req.phone
    /\ sh.address = req.address
    /\ sh.description = req.description
    /\ sh.website = req.website
    /\ sh.photo_filename = req.photo_filename
    /\ sh.password_hash = req.password_hash
    /\ sh.shelter_type = req.shelter_type
    /\ sh.pickup_service = req.pickup_service

\* route in auto mode, or in manual mode with no selection
NoSelection(form) == ~(form.mode = "manual" /\ form.shelter_ids # <<>>)

\* C1: over every sequence of operations at most one Shelter row is ever created
\* from one request: a later approve of an approved request never inserts a second.
C1_OneShelterPerRequest ==
    \A r \in DOMAIN promotions : Cardinality(promotions[r]) <= 1

\* C2: once a request is APPROVED or REJECTED no approve or reject changes its
\* status or reviewed_at again, and a decision on it creates no Shelter.
C2_DecisionIsFinal ==
    [][\A r \in DOMAIN db.shelter_requests :
        db.shelter_requests[r].status \in {"APPROVED", "REJECTED"}
        => /\ db'.shelter_requests[r].status = db.shelter_requests[r].status
           /\ db'.shelter_requests[r].reviewed_at = db.shelter_requests[r].reviewed_at
           /\ (admin_shelter_request_approve(r) \/ admin_shelter_request_reject(r))
              => NewShelters = {}]_vars

\* C3: while the logged-in administrator's must_reset flag is true, every request
\* to an administrative route outside the reset flow is redirected to the reset
\* flow and leaves the store unchanged.
C3_ResetGate ==
    [][(/\ session.admin_id \in DOMAIN db.admins
        /\ db.admins[session.admin_id].must_reset_password = 1
        /\ Served(GatedRoutes))
       => /\ resp' = redirect(resp'.route, "admin_reset_password")
          /\ db' = db]_vars

\* C4: approving a PENDING request under an administrator session, with no email
\* collision, adds exactly one Shelter row carrying the request's ten onboarding
\* fields, marks that request APPROVED with a non-null reviewed_at, and changes no
\* other request or shelter row.
C4_ApprovePending ==
    [][\A r \in DOMAIN db.shelter_requests :
        (/\ require_admin
         /\ db.shelter_requests[r].status = "PENDING"
         /\ ~EmailTaken(db, db.shelter_requests[r].email)
         /\ admin_shelter_request_approve(r))
        => /\ Cardinality(NewShelters) = 1
           /\ DOMAIN db'.shelters = DOMAIN db.shelters \cup NewShelters
           /\ \A id \in NewShelters : CopiedFields(db'.shelters[id], db.shelter_requests[r])
           /\ \A id \in DOMAIN db.shelters : db'.shelters[id] = db.shelters[id]
           /\ db'.shelter_requests[r] =
                [db.shelter_requests[r] EXCEPT !.status = "APPROVED",
                                               !.reviewed_at = db'.shelter_requests[r].reviewed_at]
           /\ db'.shelter_requests[r].reviewed_at # Null
           /\ DOMAIN db'.shelter_requests = DOMAIN db.shelter_requests
           /\ \A q \in DOMAIN db.shelter_requests \ {r} :
                db'.shelter_requests[q] = db.shelter_requests[q]]_vars

\* a request has just been approved for the first time, its Shelter is the newest
\* row, and another request and another shelter are in the store
C4_Witness ==
    /\ resp = redirect("admin_shelter_request_approve", "admin_shelter_requests")
    /\ Cardinality(DOMAIN db.shelters) = 2
    /\ Cardinality(DOMAIN db.shelter_requests) = 2
    /\ \E r \in DOMAIN promotions :
        /\ promotions[r] = {db.seq.shelters}
        /\ db.seq.shelters \in DOMAIN db.shelters
        /\ db.shelter_requests[r].status = "APPROVED"
        /\ db.shelters[db.seq.shelters].phone = "0722"

\* C5: approve is atomic. The store changes under an approve only at its commit,
\* which makes both writes at once: one new Shelter row and the request marked
\* APPROVED; an approve that fails or is cut short at any step leaves the store as
\* it found it.
C5_ApproveAtomic ==
    [][/\ (NewShelters # {} \/ RequestsChanged)
          => \E w \in Workers :
                /\ conn[w].pc = "updated" /\ conn'[w].result = "ok"
                /\ Cardinality(NewShelters) = 1
                /\ \A id \in NewShelters :
                    CopiedFields(db'.shelters[id], db'.shelter_requests[conn[w].req_id])
                /\ db'.shelter_requests[conn[w].req_id].status = "APPROVED"
       /\ \A w \in Workers :
            (conn'[w] # conn[w]
             /\ conn'[w].result \in {"IntegrityError", "OperationalError", "cut_short"})
            => db' = db]_vars

\* an approve has been cut short after its INSERT and UPDATE: its connection still
\* holds both writes, and the store shows neither
C5_Witness ==
    \E w \in Workers :
        /\ conn[w].pc = "raised" /\ conn[w].result = "cut_short"
        /\ conn[w].tx # Null
        /\ conn[w].tx[1].shelter_requests[conn[w].req_id].status = "APPROVED"
        /\ DOMAIN conn[w].tx[1].shelters # DOMAIN db.shelters
        /\ db.shelter_requests[conn[w].req_id].status = "PENDING"
        /\ ~EmailTaken(db, conn[w].req[1].email)

\* C6: of two concurrent approve calls on one request id, each on its own
\* connection, the one that does not win has observed the already-updated status
\* and fails; exactly one Shelter row results and the request ends APPROVED.
\* (Stated for a second call that ran as far as its INSERT.)
C6_SecondObservesStatus ==
    \A w \in Workers : \A v \in Workers \ {w} :
        (/\ conn[w].pc = "closed" /\ conn[w].result = "ok"
         /\ conn[v].pc = "closed" /\ conn[v].req_id = conn[w].req_id
         /\ conn[v].req # Null
         /\ conn[v].result \in {"ok", "IntegrityError"})
        => /\ conn[v].result # "ok"
           /\ conn[v].req[1].status = "APPROVED"
           /\ Cardinality(promotions[conn[w].req_id]) = 1
           /\ db.shelter_requests[conn[w].req_id].status = "APPROVED"

\* What the store's constraints do give two approve calls on one request: one
\* Shelter, the request APPROVED, the other call failed.
TwoApprovesOneShelter ==
    \A w \in Workers : \A v \in Workers \ {w} :
        (/\ conn[w].pc = "closed" /\ conn[w].result = "ok"
         /\ conn[v].pc = "closed" /\ conn[v].req_id = conn[w].req_id
         /\ conn[v].req # Null)
        => /\ conn[v].result \in {"IntegrityError", "OperationalError", "cut_short"}
           /\ Cardinality(promotions[conn[w].req_id]) = 1
           /\ db.shelter_requests[conn[w].req_id].status = "APPROVED"

\* C7: every administrator whose stored credential accepts the seeded placeholder
\* password has must_reset_password = 1.
C7_PlaceholderForcesReset ==
    \A i \in DOMAIN db.admins :
        check_password_hash(db.admins[i].password_hash, "admin")
        => db.admins[i].must_reset_password = 1

\* C8: with an empty shelters table, routing in auto mode or in manual mode with no
\* selection records nothing: the donations table is unchanged and no record with
\* shelter id 0 is written.
C8_NoSheltersAvailable ==
    [][\A category \in Categories, form \in RouteForms :
        (/\ resp'.route = "ajuta_category"
         /\ DOMAIN db.shelters = {}
         /\ NoSelection(form)
         /\ ajuta_category(category, "POST", form))
        => /\ db'.donations = db.donations
           /\ \A i \in DOMAIN db'.donations : db'.donations[i].shelter_id # 0]_vars

\* C9: every AssistanceRecord, when route writes it, references a member id of the
\* users table and a shelter id of the shelters table.
C9_RecordReferencesExist ==
    [][\A i \in DOMAIN db'.donations \ DOMAIN db.donations :
        /\ db'.donations[i].user_id \in DOMAIN db.users
        /\ db'.donations[i].shelter_id \in DOMAIN db.shelters]_vars

\* C10: in auto mode, or manual mode with no explicit id, the recorded target is a
\* shelter no other shelter beats: none has a strictly higher urgent_level, and
\* none of the same urgent_level was created later.
C10_AutoTarget ==
    [][\A category \in Categories, form \in RouteForms :
        (/\ db'.donations # db.donations
         /\ DOMAIN db.shelters # {}
         /\ NoSelection(form)
         /\ ajuta_category(category, "POST", form))
        => \A i \in DOMAIN db'.donations \ DOMAIN db.donations :
            LET target == db'.donations[i].shelter_id IN
            /\ target \in DOMAIN db.shelters
            /\ \A o \in DOMAIN db.shelters :
                /\ db.shelters[o].urgent_level <= db.shelters[target].urgent_level
                /\ db.shelters[o].urgent_level = db.shelters[target].urgent_level
                   => db.shelters[o].created_at <= db.shelters[target].created_at]_vars

\* levels [0, 5, 3] on shelters 1, 2, 3: the record written names shelter 2, the
\* level-5 one
C10_Witness ==
    /\ resp = redirect("ajuta_category", "ajuta")
    /\ DOMAIN db.shelters = {1, 2, 3}
    /\ db.shelters[1].urgent_level = 0
    /\ db.shelters[2].urgent_level = 5
    /\ db.shelters[3].urgent_level = 3
    /\ \E i \in DOMAIN db.donations : db.donations[i].shelter_id = 2

\* C11: in manual mode with at least one shelter id supplied, route writes one
\* record whose target is the first supplied id, whatever the urgency levels of
\* the shelters and whatever ids follow it.
C11_ManualTarget ==
    [][\A category \in Categories, form \in RouteForms :
        (/\ resp'.route = "ajuta_category"
         /\ form.mode = "manual" /\ form.shelter_ids # <<>>
         /\ int(form.shelter_ids[1]) # Null
         /\ current_user # 0
         /\ category \in {"materials", "money", "volunteer"}
         /\ ajuta_category(category, "POST", form))
        => /\ Cardinality(DOMAIN db'.donations \ DOMAIN db.donations) = 1
           /\ \A i \in DOMAIN db'.donations \ DOMAIN db.donations :
                /\ Some(db'.donations[i].shelter_id) = int(form.shelter_ids[1])
                /\ db'.donations[i].user_id = current_user]_vars

\* shelters 1 and 3 exist, shelter 3 at the highest level, and the record written
\* names 2, the first of the ids <<"2", "1">> supplied
C11_Witness ==
    /\ resp = redirect("ajuta_category", "ajuta")
    /\ DOMAIN db.shelters = {1, 3}
    /\ db.shelters[3].urgent_level = 5
    /\ \E i \in DOMAIN db.donations : db.donations[i].shelter_id = 2

\* C12: of two registrations with the same email after trimming and lower-casing,
\* sequential or interleaved on separate connections, the first adds one Member
\* row and the second is refused as a duplicate and adds none; no two Member rows
\* ever share an email.
C12_DuplicateMember ==
    [][/\ \A i \in DOMAIN db'.users : \A j \in DOMAIN db'.users :
            db'.users[i].email = db'.users[j].email => i = j
       /\ Cardinality(DOMAIN db'.users \ DOMAIN db.users) <= 1
       /\ \A i \in DOMAIN db.users : i \in DOMAIN db'.users /\ db'.users[i] = db.users[i]
       /\ \A w \in Workers :
            (register_insert(w) /\ UserEmailTaken(db, conn[w].req[1].email))
            => conn'[w].result = "duplicate" /\ db' = db
       /\ \A w \in Workers :
            (conn[w].pc = "raised" /\ conn[w].result = "duplicate" /\ rollback(w))
            => db' = db
       /\ \A w \in Workers :
            register_commit(w)
            => /\ Cardinality(DOMAIN db'.users \ DOMAIN db.users) = 1
               /\ ~UserEmailTaken(db, conn[w].req[1].email)
               /\ \E i \in DOMAIN db'.users : db'.users[i].email = conn[w].req[1].email]_vars

\* one worker registered a@x, the other worker's registration of the same
\* normalised email was refused as a duplicate, and the store holds the one row
C12_Witness ==
    \E w \in Workers : \E v \in Workers \ {w} :
        /\ conn[w].pc = "closed" /\ conn[w].result = "ok"
        /\ conn[v].pc = "closed" /\ conn[v].result = "duplicate"
        /\ conn[w].req[1].email = "a@x"
        /\ conn[v].req[1].email = "a@x"
        /\ Cardinality(DOMAIN db.users) = 1

\* C13: no two Shelter rows share an email, while a Member and a Shelter may hold
\* the same one: a registration with a well-formed form and an email no member
\* holds adds its row whatever the shelters' emails, and an approve of a request
\* whose email no shelter holds adds its Shelter whatever the members' emails.
C13_UniquePerTable ==
    [][/\ \A i \in DOMAIN db'.shelters : \A j \in DOMAIN db'.shelters :
            db'.shelters[i].email = db'.shelters[j].email => i = j
       /\ \A form \in RegisterForms :
            (/\ resp'.route = "register_user"
             /\ strip_lower(form.email) # "" /\ form.password # ""
             /\ form.password = form.password2
             /\ \A i \in DOMAIN db.users : db.users[i].email # strip_lower(form.email)
             /\ register_user(form, "s1"))
            => /\ resp' = redirect("register_user", "login_utilizator")
               /\ \E i \in DOMAIN db'.users \ DOMAIN db.users :
                    db'.users[i].email = strip_lower(form.email)
       /\ \A r \in DOMAIN db.shelter_requests :
            (/\ resp'.route = "admin_shelter_request_approve"
             /\ require_admin
             /\ \A i \in DOMAIN db.shelters :
                    db.shelters[i].email # db.shelter_requests[r].email
             /\ admin_shelter_request_approve(r))
            => /\ resp' = redirect("admin_shelter_request_approve", "admin_shelter_requests")
               /\ \E i \in DOMAIN db'.shelters \ DOMAIN db.shelters :
                    db'.shelters[i].email = db.shelter_requests[r].email]_vars

\* an approve has just added a Shelter whose email a Member already holds
C13_Witness ==
    /\ resp = redirect("admin_shelter_request_approve", "admin_shelter_requests")
    /\ db.seq.shelters \in DOMAIN db.shelters
    /\ \E u \in DOMAIN db.users : db.users[u].email = db.shelters[db.seq.shelters].email
    /\ Cardinality(DOMAIN db.shelters) = 2

\* C14: a run of init_db that returns, or that is refused by the username index,
\* leaves at least one administrator; a run that seeds inserts exactly one row,
\* into an empty table, with username admin and must_reset_password 1; and however
\* two runs interleave on an empty store there is never more than one administrator.
C14_OneSeededAdmin ==
    [][/\ Cardinality(DOMAIN db'.admins) <= 1
       /\ \A w \in Workers :
            (conn'[w].pc \in {"closed", "raised"} /\ conn'[w].result \in {"ok", "IntegrityError"})
            => Cardinality(DOMAIN db'.admins) >= 1
       /\ \A w \in Workers :
            seed_commit(w)
            => /\ DOMAIN db.admins = {}
               /\ Cardinality(DOMAIN db'.admins) = 1
               /\ \A i \in DOMAIN db'.admins :
                    /\ db'.admins[i].username = "admin"
                    /\ db'.admins[i].must_reset_password = 1
                    /\ check_password_hash(db'.admins[i].password_hash, "admin")
       /\ (DOMAIN db.admins # {} /\ \E w \in Workers : conn'[w] # conn[w])
            => db'.admins = db.admins]_vars

\* both runs counted 0 on the empty store; one seeded, the other's INSERT was
\* refused, and one administrator is in the store
C14_Witness ==
    \E w \in Workers : \E v \in Workers \ {w} :
        /\ conn[w].pc = "closed" /\ conn[w].result = "ok" /\ conn[w].req = Some(0)
        /\ conn[v].pc = "closed" /\ conn[v].result = "IntegrityError" /\ conn[v].req = Some(0)
        /\ Cardinality(DOMAIN db.admins) = 1

\* C15: a credential reset submitted by a logged-in administrator with matching
\* password and confirmation leaves that administrator with must_reset_password 0
\* and the hash of the new password, every other administrator row and the
\* session unchanged, and answers with the redirect to the dashboard, which the
\* session passes; with a mismatched confirmation the administrators table is
\* unchanged.
C15_ResetSave ==
    [][\A p \in Passwords, p2 \in Passwords, salt \in Salts :
        (/\ resp'.route = "admin_reset_password_save"
         /\ session.admin_id \in DOMAIN db.admins
         /\ admin_reset_password_save(p, p2, salt))
        => IF p = p2
           THEN /\ db'.admins[session.admin_id] =
                     [db.admins[session.admin_id] EXCEPT
                        !.password_hash = generate_password_hash(p, salt),
                        !.must_reset_password = 0]
                /\ \A q \in Passwords :
                     check_password_hash(db'.admins[session.admin_id].password_hash, q) <=> q = p
                /\ DOMAIN db'.admins = DOMAIN db.admins
                /\ \A i \in DOMAIN db.admins \ {session.admin_id} : db'.admins[i] = db.admins[i]
                /\ resp' = redirect("admin_reset_password_save", "admin_dashboard")
                /\ session' = session
                /\ require_admin'
           ELSE /\ db' = db
                /\ resp' = redirect("admin_reset_password_save", "admin_reset_password")]_vars

\* the second administrator has reset the credential to admin123; the seeded
\* administrator's row still has the placeholder and the flag
C15_Witness ==
    /\ resp = redirect("admin_reset_password_save", "admin_dashboard")
    /\ DOMAIN db.admins = {1, 2}
    /\ session.admin_id = 2
    /\ db.admins[2].must_reset_password = 0
    /\ check_password_hash(db.admins[2].password_hash, "admin123")
    /\ db.admins[1].must_reset_password = 1
    /\ check_password_hash(db.admins[1].password_hash, "admin")

\* C16: each of the three logouts removes its own role's session token and leaves
\* the other two tokens and the whole store unchanged; a login, successful or
\* not, leaves the other two roles' tokens and the store unchanged, and a
\* successful one binds its own role's token to a row of its table.
C16_OwnTokenOnly ==
    [][/\ resp'.route = "logout"
            => session' = [session EXCEPT !.user_id = 0] /\ db' = db
       /\ resp'.route = "logout_adapost"
            => session' = [session EXCEPT !.shelter_id = 0] /\ db' = db
       /\ resp'.route = "admin_logout"
            => session' = [session EXCEPT !.admin_id = 0] /\ db' = db
       /\ resp'.route = "login_utilizator"
            => /\ session' = [session EXCEPT !.user_id = session'.user_id] /\ db' = db
               /\ resp'.status = "redirect" => session'.user_id \in DOMAIN db.users
       /\ resp'.route = "login_adapost"
            => /\ session' = [session EXCEPT !.shelter_id = session'.shelter_id] /\ db' = db
               /\ resp'.status = "redirect" => session'.shelter_id \in DOMAIN db.shelters
       /\ resp'.route = "admin_login"
            => /\ session' = [session EXCEPT !.admin_id = session'.admin_id] /\ db' = db
               /\ resp'.status = "redirect" => session'.admin_id \in DOMAIN db.admins]_vars

\* the shelter has logged out of a context that holds a member's and an
\* administrator's token, and both are still bound
C16_Witness ==
    /\ resp = redirect("logout_adapost", "home")
    /\ session.shelter_id = 0
    /\ session.user_id \in DOMAIN db.users
    /\ session.admin_id \in DOMAIN db.admins
    /\ DOMAIN db.shelters # {}

\* C18: a login that fails because the lookup key is unknown and one that fails
\* because the password is wrong get the same response, message included, for
\* each of the three logins; a failed login binds no token and leaves the
\* session and the store unchanged.
C18_GenericFailure ==
    [][/\ \A e \in LoginEmails, p \in LoginPasswords :
            (/\ resp'.route = "login_utilizator"
             /\ strip_lower(e) # "" /\ p # ""
             /\ \A i \in DOMAIN db.users :
                    db.users[i].email = strip_lower(e)
                    => ~check_password_hash(db.users[i].password_hash, p)
             /\ login_utilizator(e, p))
            => /\ resp' = flash(render_template("login_utilizator", "login_user.html"),
                                "Email sau parola incorecte.")
               /\ session' = session /\ db' = db
       /\ \A e \in LoginEmails, p \in LoginPasswords :
            (/\ resp'.route = "login_adapost"
             /\ strip_lower(e) # "" /\ p # ""
             /\ \A i \in DOMAIN db.shelters :
                    db.shelters[i].email = strip_lower(e)
                    => ~check_password_hash(db.shelters[i].password_hash, p)
             /\ login_adapost(e, p))
            => /\ resp' = flash(render_template("login_adapost", "login_shelter.html"),
                                "Email sau parola incorecte (sau adapostul nu e aprobat).")
               /\ session' = session /\ db' = db
       /\ \A u \in Usernames, p \in Passwords :
            (/\ resp'.route = "admin_login"
             /\ \A i \in DOMAIN db.admins :
                    db.admins[i].username = u
                    => ~check_password_hash(db.admins[i].password_hash, p)
             /\ admin_login(u, p))
            => /\ resp' = flash(render_template("admin_login", "admin_login.html"),
                                "Username sau parola incorecte.")
               /\ session' = session /\ db' = db]_vars

\* a shelter login has just failed in a context where a shelter, a member and the
\* administrator are logged in, and all three tokens are still bound
C18_Witness ==
    /\ resp = flash(render_template("login_adapost", "login_shelter.html"),
                    "Email sau parola incorecte (sau adapostul nu e aprobat).")
    /\ session.shelter_id \in DOMAIN db.shelters
    /\ session.user_id \in DOMAIN db.users
    /\ session.admin_id \in DOMAIN db.admins
    /\ \E i \in DOMAIN db.shelters : db.shelters[i].email = "b@x"

LiveShelters(r) ==
    IF r \in DOMAIN promotions THEN promotions[r] \cap DOMAIN db.shelters ELSE {}

\* the login presents the email and password submitted with request r
Presents(e, p, r) ==
    /\ strip_lower(e) = db.shelter_requests[r].email
    /\ check_password_hash(db.shelter_requests[r].password_hash, p)

\* C19 (as stated): a shelter login with the email and password of a request that
\* was never approved fails, and with those of an approved request whose Shelter
\* is not deleted it succeeds.
C19_LoginOnlyAfterApproval ==
    [][\A r \in DOMAIN db.shelter_requests, e \in LoginEmails, p \in LoginPasswords :
        (/\ resp'.route = "login_adapost"
         /\ Presents(e, p, r)
         /\ login_adapost(e, p))
        => /\ r \notin DOMAIN promotions
                => resp'.status = "render" /\ session' = session
           /\ LiveShelters(r) # {}
                => resp'.status = "redirect" /\ session'.shelter_id \in LiveShelters(r)]_vars

\* C19 (amended): a shelter login with the email and password of a request fails
\* while no request submitted with that email and password has a Shelter promoted
\* from it in the store, and succeeds once the request's own Shelter is in the
\* store, binding that Shelter, whose credential hash is the request's.
C19_LoginAfterSomeApproval ==
    [][\A r \in DOMAIN db.shelter_requests, e \in LoginEmails, p \in LoginPasswords :
        (/\ resp'.route = "login_adapost"
         /\ Presents(e, p, r)
         /\ login_adapost(e, p))
        => /\ (\A q \in DOMAIN db.shelter_requests : Presents(e, p, q) => LiveShelters(q) = {})
                => resp'.status = "render" /\ session' = session
           /\ LiveShelters(r) # {}
                => /\ resp'.status = "redirect"
                   /\ session'.shelter_id \in LiveShelters(r)
                   /\ db.shelters[session'.shelter_id].password_hash =
                        db.shelter_requests[r].password_hash]_vars

\* the shelter promoted from request 2 is logged in, while request 1, never
\* approved, is REJECTED
C19_Witness ==
    /\ resp.route = "login_adapost" /\ resp.status = "redirect"
    /\ DOMAIN db.shelter_requests = {1, 2}
    /\ db.shelter_requests[1].status = "REJECTED"
    /\ 1 \notin DOMAIN promotions
    /\ session.shelter_id \in LiveShelters(2)
    /\ db.shelter_requests[1].email # db.shelter_requests[2].email

\* C20: save_uploaded_photo never overwrites a stored file. The name a save
\* writes is absent from the upload folder and is the first free name of
\* base.ext, base_1.ext, base_2.ext, ...; every file already stored keeps its
\* bytes; and the uploads whose requests are still in flight, same base name or
\* not, keep the bytes they saved under the names they were returned.
C20_NeverOverwrites ==
    [][\A w \in Workers : upload_save(w) =>
        LET local == conn[w].req[1]
        IN /\ ~exists(uploads, local.candidate)
           /\ local.candidate =
                probe(uploads, local.base, local.ext, local.base \o local.ext, 1)
           /\ \A name \in DOMAIN uploads : uploads'[name] = uploads[name]
           /\ \A v \in Workers \ {w} :
                conn[v].pc \in {"uploaded", "applied"} /\ conn[v].req[1].candidate # <<>>
                => /\ conn[v].req[1].candidate # local.candidate
                   /\ uploads'[conn[v].req[1].candidate]
                        = conn[v].req[1].form.extras.photo[1].bytes]_vars

\* C21: under an administrator session, reject on a request id that matches no
\* request is surfaced as not found (the request aborts with 404) and leaves
\* every request and shelter row unchanged.
C21_RejectNotFound ==
    [][\A req_id \in RequestIds :
        (/\ require_admin
         /\ req_id \notin DOMAIN db.shelter_requests
         /\ admin_shelter_request_reject(req_id))
        => /\ resp' = abort("admin_shelter_request_reject", "404")
           /\ db'.shelter_requests = db.shelter_requests
           /\ db'.shelters = db.shelters]_vars

\* C22: init_db is idempotent and additive. A second run right after a run
\* leaves the store as the first left it, and a run keeps every table, every
\* column and every row with its values: what it adds to a table that was there
\* is only columns of the compatibility list that were missing, at their
\* DEFAULT in the rows there, and the seeded administrator when admins had no row.
C22_IdempotentAdditive ==
    [][\A salt \in Salts : _init_db_before_requests(salt) =>
        /\ \A again \in Salts : init_db_on(db', again) = db'
        /\ \A table \in DOMAIN db :
            /\ table \in DOMAIN db'
            /\ db[table].columns \subseteq db'[table].columns
            /\ \A col \in db'[table].columns \ db[table].columns :
                \E k \in DOMAIN Migrations :
                    /\ Migrations[k].table = table /\ Migrations[k].col = col
                    /\ \A i \in DOMAIN db[table].rows :
                        db'[table].rows[i][col] = Migrations[k].default
            /\ \A i \in DOMAIN db[table].rows :
                /\ i \in DOMAIN db'[table].rows
                /\ \A col \in db[table].columns :
                    db'[table].rows[i][col] = db[table].rows[i][col]
            /\ \A i \in DOMAIN db'[table].rows \ DOMAIN db[table].rows :
                /\ table = "admins"
                /\ DOMAIN db[table].rows = {}
                /\ db'[table].rows = Insert(EmptyTable, i, DefaultAdmin(salt))]_vars

\* init_db has run on the store of an earlier version: the shelter and the
\* request written before the migrations have the added columns at their
\* DEFAULT and their own values in the others, and the administrator is seeded
C22_Witness ==
    /\ DOMAIN db = DOMAIN TableColumns
    /\ \A table \in DOMAIN db : db[table].columns = TableColumns[table]
    /\ DOMAIN db["shelters"].rows = {1}
    /\ db["shelters"].rows[1]["urgent_level"] = 0
    /\ db["shelters"].rows[1]["password_hash"] = <<>>
    /\ db["shelters"].rows[1]["name"] = "x"
    /\ DOMAIN db["shelter_requests"].rows = {1}
    /\ db["shelter_requests"].rows[1]["pickup_service"] = 1
    /\ db["admins"].rows = Insert(EmptyTable, 1, DefaultAdmin("s2"))

\* C23: under an administrator session, rejecting a request whose status is
\* PENDING sets its status to REJECTED and its reviewed_at to a time, leaves its
\* other columns, creates no Shelter and changes no other request row.
C23_RejectPending ==
    [][\A req_id \in RequestIds :
        (/\ require_admin
         /\ req_id \in DOMAIN db.shelter_requests
         /\ db.shelter_requests[req_id].status = "PENDING"
         /\ admin_shelter_request_reject(req_id))
        => /\ DOMAIN db'.shelter_requests = DOMAIN db.shelter_requests
           /\ db'.shelter_requests[req_id] =
                [db.shelter_requests[req_id] EXCEPT !.status = "REJECTED",
                                                    !.reviewed_at = Some(now)]
           /\ db'.shelter_requests[req_id].reviewed_at # Null
           /\ \A other \in DOMAIN db.shelter_requests \ {req_id} :
                db'.shelter_requests[other] = db.shelter_requests[other]
           /\ db'.shelters = db.shelters
           /\ db'.seq = db.seq]_vars

\* request 1, never approved, has just been rejected while request 2 waits
C23_Witness ==
    /\ resp.route = "admin_shelter_request_reject"
    /\ resp.target = "admin_shelter_requests"
    /\ DOMAIN db.shelter_requests = {1, 2}
    /\ db.shelter_requests[1].status = "REJECTED"
    /\ db.shelter_requests[1].reviewed_at # Null
    /\ 1 \notin DOMAIN promotions
    /\ db.shelter_requests[2].status = "PENDING"
    /\ db.shelters = EmptyTable

\* C24: a valid submission (name, email and password present, the password
\* equal to its confirmation) creates exactly one new request, with status
\* PENDING and reviewed_at null, and no Shelter; a submission with a required
\* field missing or a confirmation that differs creates no request.
C24_SubmissionCreatesPending ==
    [][\A form \in ApplyForms : shelter_apply(form, "s1") =>
        IF /\ form.name # "" /\ form.email # "" /\ form.password # ""
           /\ form.password = form.password2
        THEN \E id \in DOMAIN db'.shelter_requests \ DOMAIN db.shelter_requests :
                /\ DOMAIN db'.shelter_requests = DOMAIN db.shelter_requests \cup {id}
                /\ db'.shelter_requests[id].status = "PENDING"
                /\ db'.shelter_requests[id].reviewed_at = Null
                /\ \A other \in DOMAIN db.shelter_requests :
                    db'.shelter_requests[other] = db.shelter_requests[other]
                /\ db'.shelters = db.shelters
                /\ db'.seq.shelters = db.seq.shelters
        ELSE db' = db]_vars

\* a second valid submission has just been stored, PENDING beside the approved
\* first one and its Shelter
C24_Witness ==
    /\ resp = redirect("shelter_apply", "adaposturi")
    /\ DOMAIN db.shelter_requests = {1, 2}
    /\ db.shelter_requests[1].status = "APPROVED"
    /\ db.shelter_requests[2].status = "PENDING"
    /\ db.shelter_requests[2].reviewed_at = Null
    /\ DOMAIN db.shelters = {1}

\* C25: route rejects every category outside {materials, money, volunteer}
\* before any routing: the request aborts with 404 whatever the session and the
\* form, no AssistanceRecord is written, and after every step the category of
\* every stored AssistanceRecord is one of the three.
C25_CategoryEnumerated ==
    [][/\ \A i \in DOMAIN db'.donations :
            db'.donations[i].category \in {"materials", "money", "volunteer"}
       /\ \A category \in Categories \ {"materials", "money", "volunteer"},
             method \in {"GET", "POST"}, form \in RouteForms :
            (/\ resp'.route = "ajuta_category"
             /\ ajuta_category(category, method, form))
            => /\ resp' = abort("ajuta_category", "404")
               /\ db' = db]_vars

\* a logged-in member with shelters to route to has just been refused on the
\* category, and nothing is recorded
C25_Witness ==
    /\ resp = abort("ajuta_category", "404")
    /\ current_user # 0
    /\ db.shelters # EmptyTable
    /\ db.donations = EmptyTable

\* C26: every operation releases the store handle it acquired on every exit
\* path: once a handler has returned or has been left by an exception
\* (approve on a duplicate email included), the connection it opened is closed,
\* so no transaction of it is open and it holds no lock on the store.
C26_HandleReleased ==
    \A w \in Workers :
        \/ conn[w].pc \in {"idle", "closed"}
        \/ conn[w].pc = "raised" /\ conn[w].result \in {"IntegrityError", "OperationalError"}
        => conn[w].tx = Null /\ lock # w

\* C27: every administrative mutation (approve, reject, user edit, user delete,
\* shelter delete, administrator profile edit, credential reset) invoked with no
\* administrator token bound redirects to the administrator login and leaves the
\* store unchanged; and the status of a request changes only in an approve or a
\* reject of that request performed under an administrator session.
C27_AdminGuard ==
    [][/\ session.admin_id = 0 =>
            /\ \A req_id \in RequestIds :
                /\ admin_shelter_request_approve(req_id)
                    => resp'.status = "redirect" /\ resp'.target = "admin_login" /\ db' = db
                /\ admin_shelter_request_reject(req_id)
                    => resp'.status = "redirect" /\ resp'.target = "admin_login" /\ db' = db
            /\ \A user_id \in UserIds :
                /\ \A form \in UserEditForms : admin_user_edit(user_id, "POST", form)
                    => resp'.status = "redirect" /\ resp'.target = "admin_login" /\ db' = db
                /\ admin_user_delete(user_id)
                    => resp'.status = "redirect" /\ resp'.target = "admin_login" /\ db' = db
            /\ \A shelter_id \in ShelterIds : admin_shelter_delete(shelter_id)
                    => resp'.status = "redirect" /\ resp'.target = "admin_login" /\ db' = db
            /\ \A form \in ProfileForms : admin_profile("POST", form)
                    => resp'.status = "redirect" /\ resp'.target = "admin_login" /\ db' = db
            /\ \A p \in NewPasswords, p2 \in Passwords : admin_reset_password_save(p, p2, "s2")
                    => resp'.status = "redirect" /\ resp'.target = "admin_login" /\ db' = db
       /\ \A r \in DOMAIN db.shelter_requests :
            /\ r \in DOMAIN db'.shelter_requests
            /\ db'.shelter_requests[r].status # db.shelter_requests[r].status
                => /\ session.admin_id # 0
                   /\ \/ admin_shelter_request_approve(r)
                      \/ admin_shelter_request_reject(r)]_vars

\* after the administrator logged out, a reject was turned away: the store
\* holds a member, a pending request, and a Shelter and its approved request,
\* all left as they were
C27_Witness ==
    /\ session.admin_id = 0
    /\ resp = redirect("admin_shelter_request_reject", "admin_login")
    /\ DOMAIN db.users = {1}
    /\ DOMAIN db.shelters = {1}
    /\ db.shelter_requests[1].status = "APPROVED"
    /\ DOMAIN db.shelter_requests = {1, 2}
    /\ db.shelter_requests[2].status = "PENDING"

\* C28: in every reachable state every Shelter row has a source request, the
\* request it was promoted from, and the status of that request is APPROVED.
C28_ShelterHasApprovedSource ==
    \A s \in DOMAIN db.shelters :
        \E r \in DOMAIN promotions \cap DOMAIN db.shelter_requests :
            /\ s \in promotions[r]
            /\ db.shelter_requests[r].status = "APPROVED"

\* C29: every Shelter is created by approve, with urgent_level 0, and no
\* operation changes the urgent_level of a Shelter: after every step all
\* shelters have urgent_level 0, and a route in auto mode (or in manual mode with
\* no selection) over a store with shelters records the most recently created
\* one, the shelter of the greatest id.
C29_UrgentLevelZero ==
    [][/\ \A s \in DOMAIN db'.shelters : db'.shelters[s].urgent_level = 0
       /\ \A s \in DOMAIN db'.shelters \ DOMAIN db.shelters :
            /\ \E req_id \in RequestIds : admin_shelter_request_approve(req_id)
            /\ \A o \in DOMAIN db.shelters : o < s
       /\ \A s \in DOMAIN db'.shelters \cap DOMAIN db.shelters :
            db'.shelters[s].urgent_level = db.shelters[s].urgent_level
       /\ \A form \in UrgentForms :
            (/\ db'.donations # db.donations
             /\ DOMAIN db.shelters # {}
             /\ NoSelection(form)
             /\ ajuta_category("money", "POST", form))
            => \A i \in DOMAIN db'.donations \ DOMAIN db.donations :
                /\ db'.donations[i].shelter_id \in DOMAIN db.shelters
                /\ \A o \in DOMAIN db.shelters : o <= db'.donations[i].shelter_id]_vars

\* shelters 1 and 2 were promoted, both at urgent_level 0, and the member's
\* request in auto mode is recorded for shelter 2
C29_Witness ==
    /\ resp = redirect("ajuta_category", "ajuta")
    /\ DOMAIN db.shelters = {1, 2}
    /\ \A s \in DOMAIN db.shelters : db.shelters[s].urgent_level = 0
    /\ DOMAIN db.donations = {1}
    /\ db.donations[1].shelter_id = 2

====
